---- MODULE Spec2Model ----
(***************************************************************************)
(* Babelfish: the position analyzer (ChessAnalyzer.analyze_position), the  *)
(* principal variation walker (ChessAnalyzer.get_principal_variation) and  *)
(* the move quality classifiers of the tool router and of the coach        *)
(* server.                                                                 *)
(*                                                                         *)
(* The chess rules library (python-chess) and the engine binding           *)
(* (stockfish) are external.  Positions are abstract: a FEN is a number,   *)
(* even numbers have White to move, and the rules library is a fixed       *)
(* table over them.  The engine is nondeterministic: each search may       *)
(* answer any evaluation and any move, or raise.                           *)
(***************************************************************************)
EXTENDS Integers, Sequences, FiniteSets, TLC

\* ------------------------------------------------------------------ bounds
HalfPos == 3
MaxMoves == 3
MaxCand == 2

\* --------------------------------------------------- positions and the rules
NPos == 2 * HalfPos
Positions == 0 .. (NPos - 1)
\* A FEN that Stockfish.is_fen_valid rejects.
BadFen == NPos
\* A FEN that Stockfish.is_fen_valid accepts and chess.Board(fen) rejects.
QuirkFen == NPos + 1
Fens == Positions \cup {BadFen, QuirkFen}

\* (variant: the validity check left out)
IsFenValidAlways(fen) == TRUE

\* Stockfish.is_fen_valid(fen)
IsFenValid(fen) == fen \in Positions \cup {QuirkFen}
BoardParses(fen) == fen \in Positions

\* (variant: the side to move read from the board after the move)
TurnAfterPush(p) == IF p % 2 = 0 THEN "Black" ELSE "White"

\* chess.Board(fen).turn
Turn(p) == IF p % 2 = 0 THEN "White" ELSE "Black"

IsCheckmate(p) == p % 6 = 4
IsStalemate(p) == p % 6 = 5
IsInsufficientMaterial(p) == p % 6 = 3 \/ p % 6 = 5

\* Moves in UCI notation are 1 .. NMoves + 1; the last one is legal nowhere.
NMoves == 3
NoMove == 0
UciMoves == 1 .. (NMoves + 1)
LegalMoves(p) == IF IsCheckmate(p) \/ IsStalemate(p) THEN {} ELSE 1 .. NMoves
\* SAN notation of a move differs from its UCI notation.
SanOffset == 10
SanMoves == {m + SanOffset : m \in UciMoves}

\* board.push(move); board.fen()
Apply(p, m) == (p + 2 * m - 1) % NPos

\* ChessAnalyzer.uci_to_san: SAN of a legal move, the UCI text otherwise.
UciToSan(fen, uci) ==
  IF BoardParses(fen) /\ uci \in LegalMoves(fen) THEN uci + SanOffset ELSE uci

\* The texts "--", "Z0", "0000" and "@@@@" and the move they stand for,
\* chess.Move.null(): legal nowhere, but push takes it and passes the turn.
NullSan == 9
NullMove == -1

\* board.parse_san(text): a legal move or the null move, or NoMove when
\* it raises.
ParseSan(p, text) ==
  IF text = NullSan THEN NullMove
  ELSE IF (text - SanOffset) \in LegalMoves(p) THEN text - SanOffset
  ELSE NoMove

\* ------------------------------------------------------------ the engine
DefaultDepth == 15
PvDefaultDepth == 20
Depths == {DefaultDepth, PvDefaultDepth}

ExtremeCp == 2000
Cp(v) == [type |-> "cp", value |-> v]
Mate(v) == [type |-> "mate", value |-> v]
\* Stockfish.get_evaluation answers, White-positive.
PosEvals == {Cp(0), Cp(ExtremeCp), Cp(0 - ExtremeCp - 1), Mate(1), Mate(-1)}
NoEval == Cp(0)

\* Stockfish.get_best_move answers: None when there is no legal move, else
\* any move text (a legal move, or one the rules library does not accept).
BestMoveAnswers(p) == IF LegalMoves(p) = {} THEN {NoMove} ELSE UciMoves

\* Stockfish.get_top_moves(3) asks for this many candidates.
TopN == 3

\* ------------------------------------------------------------------ state
VARIABLES
  pc,           \* "idle", "walk" (inside the loop of the walker), "done"
  op,           \* the call in progress or returned last: "none", "analyze", "pv"
  argFen, argDepth, argMax,     \* the arguments of that call
  sfFen, sfDepth,               \* self.stockfish: loaded position, depth setting
  nLoads, nSearches,            \* engine commands issued by that call
  pv_moves, pv_analysis, current_fen, board, move_num,  \* locals of the walker
  status,       \* "none", "ok", "ValueError" (Invalid FEN), "EngineError"
  analysis,     \* the dictionary analyze_position returned
  pvResult,     \* the dictionary get_principal_variation returned
  failAt,       \* history: the call that raised in this call, or "none"
  ideal,        \* history: the steps as recorded when nothing raises
  q,            \* a move quality query: position, move, the analyzer's answer
  out,          \* what a classifier answered to q
  calls,        \* the analyzer calls one router tool made, with their time bounds
  handle,       \* which engine self.stockfish is: "configured" or "default"
  eng,          \* a deterministic engine: what decides its answers
  runs,         \* the calls of analyze_position made so far and their results
  deployment,   \* the server the requests arrive at: "web" or "mcp"
  reqs,         \* per request: its state, its engine handle, its position
  loop,         \* the request whose handler the event loop runs, 0 if none
  elog,         \* per engine handle: the commands it executed, in order
  pawnBoard,    \* the pawns of a position given to the concept analysis
  passedReport, \* what analyze_passed_pawns reported
  majReport,    \* what analyze_pawn_majorities reported
  httpPc,       \* chat_completion: "idle", "loop", "returned", "raised"
  max_retries,  \* its argument
  attempt,      \* the loop variable of its for statement
  last_error,   \* its local of that name
  hlog,         \* history: the requests it sent and the waits it slept
  httpResult,   \* what it returned or raised
  heap,         \* the list objects of a conversation: list id -> its entries
  self_messages,  \* ConversationManager.messages: the list it refers to
  returned,     \* the list a caller got from get_messages, 0 if none
  tool_call_count,  \* ConversationManager.tool_call_count
  convOp,       \* history: the operation on the conversation done last
  chatPc,       \* chat_loop: "prompt" (asks for input) or "loop"
  iteration,    \* its local of that name
  mvOut,        \* what the apply_moves tool of a server answered
  tools,        \* MCPToolRouter.tools: the names registered
  ctOut         \* how call_tool or call_tool_mcp ended

anVars == <<pc, op, argFen, argDepth, argMax, sfFen, sfDepth, nLoads,
            nSearches, pv_moves, pv_analysis, current_fen, board, move_num,
            status, analysis, pvResult, failAt, ideal>>
\* the state of the other components
idVars == <<handle, eng, runs>>
concVars == <<deployment, reqs, loop, elog>>
pawnVars == <<pawnBoard, passedReport, majReport>>
httpVars == <<httpPc, max_retries, attempt, last_error, hlog, httpResult>>
convVars == <<heap, self_messages, returned, tool_call_count, convOp>>
chatVars == <<chatPc, iteration>>
cliVars == <<httpVars, convVars, chatVars>>
toolVars == <<mvOut, tools, ctOut>>
xVars == <<calls, idVars, concVars, pawnVars, cliVars, toolVars>>
\* everything but the state of the command line client
coreVars == <<anVars, q, out, calls, idVars, concVars, pawnVars, toolVars>>
vars == <<anVars, q, out, xVars>>

NoStep == [move_number |-> 0, move_san |-> NoMove, move_uci |-> NoMove,
           fen_before |-> 0, fen_after |-> 0, evaluation |-> NoEval,
           to_move |-> "White", result |-> "none"]

NoAnalysis == [fen |-> 0, evaluation |-> NoEval, best_move |-> NoMove,
               best_move_uci |-> NoMove, top_moves |-> <<>>]

NoPv == [starting_fen |-> 0, pv_moves |-> <<>>, pv_analysis |-> <<>>,
         total_moves |-> 0, analysis_depth |-> 0]

\* ------------------------------------------------- the walker, one iteration
\* Where a call of the engine or of the rules library raises in an iteration.
PlyFailPoints == {"none", "set_fen_position", "set_depth", "get_evaluation",
                  "get_best_move", "turn", "is_checkmate", "is_stalemate",
                  "is_insufficient_material"}
\* (variant: one iteration too many)
LoopContinuesInclusive(n, max) == n <= max

\* for move_num in range(max_moves)
LoopContinues(n, max) == n < max

\* (variant: the chain without its last branch)
TerminalTagNoInsufficient(p, fp) ==
  IF fp = "is_checkmate" THEN "raise"
  ELSE IF IsCheckmate(p) THEN "checkmate"
  ELSE IF fp = "is_stalemate" THEN "raise"
  ELSE IF IsStalemate(p) THEN "stalemate"
  ELSE "none"

\* (variant: the chain without its first branch)
TerminalTagNoCheckmate(p, fp) ==
  IF fp = "is_stalemate" THEN "raise"
  ELSE IF IsStalemate(p) THEN "stalemate"
  ELSE IF fp = "is_insufficient_material" THEN "raise"
  ELSE IF IsInsufficientMaterial(p) THEN "insufficient_material"
  ELSE "none"

\* the if / elif chain on the board after the move; "raise" when the rules
\* library raises in a check that is reached
TerminalTag(p, fp) ==
  IF fp = "is_checkmate" THEN "raise"
  ELSE IF IsCheckmate(p) THEN "checkmate"
  ELSE IF fp = "is_stalemate" THEN "raise"
  ELSE IF IsStalemate(p) THEN "stalemate"
  ELSE IF fp = "is_insufficient_material" THEN "raise"
  ELSE IF IsInsufficientMaterial(p) THEN "insufficient_material"
  ELSE "none"

Abs(x) == IF x < 0 THEN 0 - x ELSE x

\* (variant: the bound itself stops the walk)
TooExtremeInclusive(ev) ==
  \/ ev.type = "mate"
  \/ ev.type = "cp" /\ Abs(ev.value) >= ExtremeCp

\* (variant: a mate score does not stop the walk)
TooExtremeNoMate(ev) == ev.type = "cp" /\ Abs(ev.value) > ExtremeCp

\* the early stop on an extreme evaluation
TooExtreme(ev) ==
  \/ ev.type = "mate"
  \/ ev.type = "cp" /\ Abs(ev.value) > ExtremeCp

\* One iteration of the loop from position cur with the board at b, the engine
\* answering ev and uci, and a raise at fp (if that call is reached).
\* exit: "raise" (to the except clause), "break", "continue".
PlyOutcome(cur, b, n, fp, ev, uci) ==
  LET san == UciToSan(cur, uci)
      mv == ParseSan(b, san)
      new == Apply(b, mv)
      step == [move_number |-> n + 1, move_san |-> san, move_uci |-> uci,
               fen_before |-> cur, fen_after |-> new, evaluation |-> ev,
               to_move |-> Turn(cur), result |-> "none"]
      tag == TerminalTag(new, fp)
      none == [exit |-> "raise", at |-> fp, rec |-> FALSE, step |-> NoStep,
               cur |-> cur, board |-> b, loads |-> 0, searches |-> 0]
  IN  IF fp = "set_fen_position" THEN none
      ELSE IF fp = "set_depth" THEN [none EXCEPT !.loads = 1]
      ELSE IF fp = "get_evaluation"
        THEN [none EXCEPT !.loads = 1, !.searches = 1]
      ELSE IF fp = "get_best_move"
        THEN [none EXCEPT !.loads = 1, !.searches = 2]
      ELSE IF uci = NoMove \/ mv = NoMove
        \* no best move, or parse_san raised (the inner except clause)
        THEN [none EXCEPT !.exit = "break",
                          !.at = IF uci = NoMove THEN "none" ELSE "parse_san",
                          !.loads = 1, !.searches = 2]
      ELSE IF fp = "turn"
        THEN [none EXCEPT !.board = new, !.loads = 1, !.searches = 2]
      ELSE IF tag = "raise"
        THEN [exit |-> "raise", at |-> fp, rec |-> TRUE, step |-> step,
              cur |-> cur, board |-> new, loads |-> 1, searches |-> 2]
      ELSE IF tag # "none"
        THEN [exit |-> "break", at |-> "none", rec |-> TRUE,
              step |-> [step EXCEPT !.result = tag], cur |-> cur,
              board |-> new, loads |-> 1, searches |-> 2]
      ELSE [exit |-> IF TooExtreme(ev) THEN "break" ELSE "continue",
            at |-> "none", rec |-> TRUE, step |-> step, cur |-> new, board |-> new,
            loads |-> 1, searches |-> 2]

\* (variant: the position the walk has come to given as starting_fen)
PvReturnCurrentFen(fen, moves, steps, depth) ==
  [starting_fen |-> IF steps = <<>> THEN fen ELSE steps[Len(steps)].fen_after,
   pv_moves |-> moves, pv_analysis |-> steps,
   total_moves |-> Len(moves), analysis_depth |-> depth]

\* the dictionary returned at the end of get_principal_variation
PvReturn(fen, moves, steps, depth) ==
  [starting_fen |-> fen, pv_moves |-> moves, pv_analysis |-> steps,
   total_moves |-> Len(moves), analysis_depth |-> depth]

\* (variant: no except clause, an exception reaches the caller)
WalkResultPropagates(exit, fen, moves, steps, depth) ==
  IF exit = "raise" THEN [status |-> "EngineError", pv |-> NoPv]
  ELSE [status |-> "ok", pv |-> PvReturn(fen, moves, steps, depth)]

\* What the caller of the walker gets once the loop is left: the except clause
\* swallows an exception, so the dictionary is returned on every exit.
WalkResult(exit, fen, moves, steps, depth) ==
  [status |-> "ok", pv |-> PvReturn(fen, moves, steps, depth)]

\* ------------------------------------------------------ analyze_position
\* Stockfish.get_top_moves answers.  An entry is a move with a centipawn or a
\* mate score, White-positive: type "cp" stands for Centipawn = value and
\* Mate = None, type "mate" for Mate = value and Centipawn = None.
Entry(m, e) == [Move |-> m, UCI |-> m, type |-> e.type, value |-> e.value]

MateKey == 100000
\* How good evaluation e is for the side to move (higher is better).
MoverKey(e, side) ==
  LET w == IF e.type = "cp" THEN e.value
           ELSE IF e.value > 0 THEN MateKey - e.value
           ELSE 0 - MateKey - e.value
  IN  IF side = "White" THEN w ELSE 0 - w

Min(a, b) == IF a < b THEN a ELSE b

\* The candidate lists the engine can answer for position p with scores from
\* evals: best first for the side to move, none without a legal move.  The
\* candidates are named by rank (the classifiers compare move names for
\* equality only, so the names are interchangeable).
TopMovesAnswers(p, evals, maxLen) ==
  IF LegalMoves(p) = {} THEN {<<>>}
  ELSE LET lens == 1 .. Min(Min(maxLen, TopN), NMoves)
           lists == UNION {[1 .. n -> evals] : n \in lens}
           sorted(l) == \A i \in 1 .. (Len(l) - 1) :
                          MoverKey(l[i], Turn(p)) >= MoverKey(l[i + 1], Turn(p))
       IN  {[i \in 1 .. Len(l) |-> Entry(i, l[i])] : l \in {x \in lists : sorted(x)}}

\* the conversion of the candidates to SAN in analyze_position
TopMovesSan(fen, top) ==
  [i \in 1 .. Len(top) |->
     IF top[i].Move # NoMove
       THEN [top[i] EXCEPT !.Move = UciToSan(fen, top[i].Move)]
       ELSE top[i]]

\* best_move = self.uci_to_san(fen, best_move_uci) if best_move_uci else None
BestMoveSan(fen, uci) == IF uci # NoMove THEN UciToSan(fen, uci) ELSE NoMove

AnalyzeFailPoints == {"none", "set_fen_position", "set_depth", "get_evaluation",
                      "get_best_move", "get_top_moves", "will_move_be_a_capture"}

\* (variant: the call made without a best move as well)
CaptureCallUnguarded(uci, fp) ==
  uci = NoMove \/ fp = "will_move_be_a_capture"

\* will_move_be_a_capture(best_move_uci) is called for a best move only; it
\* raises when the engine fails there.
CaptureCallRaises(uci, fp) ==
  uci # NoMove /\ fp = "will_move_be_a_capture"

\* analyze_position(fen, depth) with the engine answering ev, uci and top and
\* raising at fp (if that call is reached).  The is_check entry of the
\* dictionary (the answer of will_move_be_a_capture) is left out.
AnalyzeOutcome(fen, fp, ev, uci, top) ==
  LET bad == [status |-> "EngineError", at |-> fp, analysis |-> NoAnalysis,
              loads |-> 1, depthSet |-> TRUE, searches |-> 0]
  IN  IF ~IsFenValid(fen)
        THEN [bad EXCEPT !.status = "ValueError", !.at = "none", !.loads = 0,
                         !.depthSet = FALSE]
      ELSE IF fp = "set_fen_position"
        THEN [bad EXCEPT !.loads = 0, !.depthSet = FALSE]
      ELSE IF fp = "set_depth" THEN [bad EXCEPT !.depthSet = FALSE]
      ELSE IF fp = "get_evaluation" THEN [bad EXCEPT !.searches = 1]
      ELSE IF fp = "get_best_move" THEN [bad EXCEPT !.searches = 2]
      ELSE IF fp = "get_top_moves" THEN [bad EXCEPT !.searches = 3]
      ELSE IF CaptureCallRaises(uci, fp)
        THEN [bad EXCEPT !.searches = 3,
                         !.at = IF fp = "will_move_be_a_capture" THEN fp
                                ELSE "none"]
      ELSE [status |-> "ok", at |-> "none",
            analysis |-> [fen |-> fen, evaluation |-> ev,
                          best_move |-> BestMoveSan(fen, uci),
                          best_move_uci |-> uci,
                          top_moves |-> TopMovesSan(fen, top)],
            loads |-> 1, depthSet |-> TRUE, searches |-> 3]

\* ------------------------------------------------ the move classifiers
\* The classifiers get their analyses from the analyzer they are given; the
\* router passes it a time limit as well (mcp_tool_router.py, line 469).  An
\* analysis is the dictionary of analyze_position.
NoQuery == [fen |-> 0, move |-> NoMove, before |-> "none",
            analysis |-> NoAnalysis]
NoOut == [tool |-> "none", kind |-> "none", quality |-> "none",
          hasLoss |-> FALSE, loss |-> 0, after |-> "unused",
          afterEval |-> NoEval, top_n |-> 0]

\* move_info.get("Centipawn") is not None
HasCentipawn(mi) == mi.type = "cp"

\* the index of the first candidate among the first n named move, 0 if none
FindMove(top, n, move) ==
  LET hits == {i \in 1 .. Min(n, Len(top)) : top[i].Move = move}
  IN  IF hits = {} THEN 0 ELSE CHOOSE i \in hits : \A j \in hits : i <= j

\* "b" in fen: Black is to move, or the letter stands elsewhere in the FEN
\* (a black bishop, a square of the b-file)
FenContainsB(fen) == Turn(fen) = "Black" \/ fen % 4 = 0

\* board = chess.Board(fen); board.parse_san(move) raises
MoveRejected(fen, move) == ~BoardParses(fen) \/ ParseSan(fen, move) = NoMove

\* (variant: the bounds of the scale taken strictly)
RouterQualityStrict(loss) ==
  IF loss < 10 THEN "Excellent"
  ELSE IF loss < 50 THEN "Good"
  ELSE IF loss < 100 THEN "Inaccuracy"
  ELSE IF loss < 200 THEN "Mistake"
  ELSE "Blunder"

\* _evaluate_move_quality, the scale for a move of the candidate list
RouterQuality(loss) ==
  IF loss <= 10 THEN "Excellent"
  ELSE IF loss <= 50 THEN "Good"
  ELSE IF loss <= 100 THEN "Inaccuracy"
  ELSE IF loss <= 200 THEN "Mistake"
  ELSE "Blunder"

\* the scale of the router for a move outside the list; eval_loss is in
\* pawns there, the bounds 0.1, 0.3, 0.8 and 2.0 are these in centipawns
AbsentQuality(lossCp) ==
  IF lossCp <= 10 THEN "Equal"
  ELSE IF lossCp <= 30 THEN "MinorInaccuracy"
  ELSE IF lossCp <= 80 THEN "Inaccuracy"
  ELSE IF lossCp <= 200 THEN "Mistake"
  ELSE "Blunder"

\* eval_change = eval_after - (-eval_before); eval_loss = -eval_change
AbsentLoss(evBefore, evAfter) == 0 - (evAfter.value - (0 - evBefore.value))

\* MCPToolRouter._evaluate_move_quality(fen, move): b is the outcome of the
\* analysis of fen, a the outcome of the analysis of the position after move.
RouterEvaluate(fen, move, b, a) ==
  LET top == b.analysis.top_moves
      ev == b.analysis.evaluation
      i == FindMove(top, Len(top), move)
      res == [NoOut EXCEPT !.tool = "evaluate_move_quality"]
  IN  IF b.status # "ok" THEN [res EXCEPT !.kind = "error"]
      ELSE IF i = 0
        THEN IF MoveRejected(fen, move) THEN [res EXCEPT !.kind = "invalid"]
             ELSE IF a.status # "ok"
               \* eval_loss is unbound: the bare except answers Invalid move
               THEN [res EXCEPT !.kind = "invalid", !.after = a.status]
             ELSE IF ev.type = "cp" /\ a.evaluation.type = "cp"
               THEN [res EXCEPT !.kind = "absent", !.after = "ok",
                       !.afterEval = a.evaluation, !.hasLoss = TRUE,
                       !.loss = AbsentLoss(ev, a.evaluation),
                       !.quality = AbsentQuality(AbsentLoss(ev, a.evaluation))]
             ELSE [res EXCEPT !.kind = "absent", !.after = "ok",
                     !.afterEval = a.evaluation, !.quality = "Complex"]
      ELSE IF ev.type = "cp" /\ HasCentipawn(top[i])
        THEN IF ~HasCentipawn(top[1])
               \* best_move_eval is None: the subtraction raises
               THEN [res EXCEPT !.kind = "error"]
               ELSE [res EXCEPT !.kind = "rated", !.hasLoss = TRUE,
                       !.loss = top[1].value - top[i].value,
                       !.quality = RouterQuality(top[1].value - top[i].value)]
      ELSE [res EXCEPT !.kind = "mate_note"]

\* MCPToolRouter._validate_move_choice(fen, move, top_n)
ValidateTopN == 3
RouterValidate(fen, move, n, b, a) ==
  LET top == b.analysis.top_moves
      ev == b.analysis.evaluation
      i == FindMove(top, n, move)
      res == [NoOut EXCEPT !.tool = "validate_move_choice", !.top_n = n]
  IN  IF b.status # "ok" THEN [res EXCEPT !.kind = "error"]
      ELSE IF i # 0 THEN [res EXCEPT !.kind = "approved"]
      ELSE IF MoveRejected(fen, move) THEN [res EXCEPT !.kind = "not_in_top"]
      ELSE IF a.status # "ok"
        THEN [res EXCEPT !.kind = "not_in_top", !.after = a.status]
      ELSE IF ev.type = "cp" /\ a.evaluation.type = "cp"
        THEN [res EXCEPT !.kind = "absent", !.after = "ok",
                !.afterEval = a.evaluation, !.hasLoss = TRUE,
                !.loss = AbsentLoss(ev, a.evaluation),
                !.quality = AbsentQuality(AbsentLoss(ev, a.evaluation))]
      ELSE [res EXCEPT !.kind = "absent", !.after = "ok",
              !.afterEval = a.evaluation, !.quality = "Complex"]

\* evaluate_specific_move, the rating of abs(eval_change)
CoachRating(change) ==
  IF Abs(change) < 20 THEN "Excellent"
  ELSE IF Abs(change) < 50 THEN "Good"
  ELSE IF Abs(change) < 100 THEN "Questionable"
  ELSE IF Abs(change) < 200 THEN "Bad"
  ELSE "Blunder"

\* value if the evaluation is in centipawns, else 0
CpOrZero(ev) == IF ev.type = "cp" THEN ev.value ELSE 0

\* evaluate_specific_move(fen, move) of the coach server.  The listing of the
\* alternatives divides each candidate's Centipawn by 100, which raises for
\* a candidate with a mate score.
CoachEvaluate(fen, move, b, a) ==
  LET top == b.analysis.top_moves
      ev == b.analysis.evaluation
      i == FindMove(top, Len(top), move)
      listed == \A j \in 1 .. Min(5, Len(top)) : HasCentipawn(top[j])
      res == [NoOut EXCEPT !.tool = "evaluate_move"]
      change == IF FenContainsB(fen)
                  THEN CpOrZero(ev) - CpOrZero(a.evaluation)
                  ELSE CpOrZero(a.evaluation) - CpOrZero(ev)
  IN  IF b.status # "ok" \/ ~BoardParses(fen) THEN [res EXCEPT !.kind = "error"]
      ELSE IF ParseSan(fen, move) = NoMove THEN [res EXCEPT !.kind = "invalid"]
      ELSE IF i # 0 /\ HasCentipawn(top[i])
        THEN IF ~listed THEN [res EXCEPT !.kind = "error"]
             ELSE [res EXCEPT !.kind = "rated", !.hasLoss = TRUE,
                     !.loss = top[i].value - top[1].value,
                     !.quality = CoachRating(top[i].value - top[1].value)]
      ELSE IF a.status # "ok"
        THEN [res EXCEPT !.kind = "error", !.after = a.status]
      ELSE IF ~listed
        THEN [res EXCEPT !.kind = "error", !.after = "ok",
                         !.afterEval = a.evaluation]
      ELSE [res EXCEPT !.kind = "fallback", !.after = "ok",
              !.afterEval = a.evaluation, !.hasLoss = TRUE, !.loss = change,
              !.quality = CoachRating(change)]

\* --------------------------------------------------------------- actions
InitAnalyzer ==
  /\ pc = "idle" /\ op = "none"
  /\ argFen = 0 /\ argDepth = DefaultDepth /\ argMax = 0
  /\ sfFen = 0 /\ sfDepth = DefaultDepth
  /\ nLoads = 0 /\ nSearches = 0
  /\ pv_moves = <<>> /\ pv_analysis = <<>> /\ current_fen = 0 /\ board = 0
  /\ move_num = 0
  /\ status = "none" /\ analysis = NoAnalysis /\ pvResult = NoPv
  /\ failAt = "none" /\ ideal = <<>>

\* the other components before any request
NoEngine == [seed |-> 0, tuned |-> FALSE]
IdIdle == handle = "configured" /\ eng = NoEngine /\ runs = <<>>
ConcIdle == deployment = "none" /\ reqs = <<>> /\ loop = 0 /\ elog = <<>>
NoPassedReport == [white |-> <<>>, black |-> <<>>, white_text |-> "none",
                   black_text |-> "none", verified_none |-> FALSE,
                   count |-> 0]
NoMajReport == [queenside |-> "none", kingside |-> "none",
                verified_none |-> FALSE, count |-> 0]
PawnIdle ==
  pawnBoard = {} /\ passedReport = NoPassedReport /\ majReport = NoMajReport
NoError == [type |-> "None", status |-> 0]
NoResponse == [status |-> -1, body |-> "none"]
\* chat_completion has neither returned (response) nor raised (error)
NoResult == [response |-> NoResponse, error |-> NoError]
HttpIdle ==
  /\ httpPc = "idle" /\ max_retries = 0 /\ attempt = 0
  /\ last_error = NoError /\ hlog = <<>> /\ httpResult = NoResult
\* the conversation as ConversationManager.__init__ leaves it
ListIds == 1 .. 3
NoList == 0
Message(role, id, name, content, tool_calls) ==
  [role |-> role, tool_call_id |-> id, name |-> name, content |-> content,
   tool_calls |-> tool_calls]
SystemMessage == Message("system", 0, "", "You are Babelfish", <<>>)
ConvIdle ==
  /\ heap = [i \in ListIds |-> IF i = 1 THEN <<SystemMessage>> ELSE <<>>]
  /\ self_messages = 1 /\ returned = NoList
  /\ tool_call_count = 0 /\ convOp = "init"
ChatIdle == chatPc = "prompt" /\ iteration = 0
CliIdle == HttpIdle /\ ConvIdle /\ ChatIdle
NoMvOut == [tool |-> "none", starting_fen |-> 0, moves |-> <<>>,
            status |-> "none", error |-> "none", index |-> 0, named |-> NoMove,
            applied |-> <<>>, fen |-> 0, analysed |-> FALSE]
\* the keys of MCPToolRouter.tools after _register_tools
RegisteredTools ==
  {"analyze_position", "analyze_endgame", "analyze_game", "apply_moves",
   "find_tactical_motifs", "explain_position", "evaluate_move_quality",
   "get_principal_variation", "get_top_lines", "suggest_move",
   "validate_move_choice", "visualize_board"}
NoCtOut == [api |-> "none", tool_name |-> "", behaviour |-> "none",
            status |-> "none", message |-> "none", raised |-> FALSE,
            invoked |-> FALSE]
ToolIdle == mvOut = NoMvOut /\ tools = RegisteredTools /\ ctOut = NoCtOut
XIdle == calls = <<>> /\ IdIdle /\ ConcIdle /\ PawnIdle /\ CliIdle /\ ToolIdle
\* the analyzer, the classifiers and the servers at rest
CoreIdle ==
  /\ InitAnalyzer /\ q = NoQuery /\ out = NoOut
  /\ calls = <<>> /\ IdIdle /\ ConcIdle /\ PawnIdle /\ ToolIdle

Init == InitAnalyzer /\ q = NoQuery /\ out = NoOut /\ XIdle

WalkerIdle ==
  /\ pv_moves' = <<>> /\ pv_analysis' = <<>> /\ current_fen' = 0 /\ board' = 0
  /\ move_num' = 0 /\ pvResult' = NoPv /\ ideal' = <<>>

\* ChessAnalyzer.analyze_position(fen, depth)
AnalyzePosition ==
  /\ UNCHANGED <<q, out, xVars>>
  /\ pc = "idle"
  /\ \E fen \in Fens, depth \in Depths, fp \in AnalyzeFailPoints :
     \E ev \in (IF fp = "none" THEN PosEvals ELSE {NoEval}),
        uci \in BestMoveAnswers(fen),
        top \in (IF fp = "none" THEN TopMovesAnswers(fen, PosEvals, MaxCand)
                 ELSE {<<>>}) :
       LET o == AnalyzeOutcome(fen, fp, ev, uci, top) IN
         /\ op' = "analyze" /\ argFen' = fen /\ argDepth' = depth
         /\ argMax' = 0
         /\ sfFen' = IF o.loads > 0 THEN fen ELSE sfFen
         /\ sfDepth' = IF o.depthSet THEN depth ELSE sfDepth
         /\ nLoads' = o.loads /\ nSearches' = o.searches
         /\ status' = o.status /\ analysis' = o.analysis
         /\ failAt' = o.at
  /\ pc' = "done"
  /\ WalkerIdle

\* get_principal_variation up to the loop: the validity check, the locals and
\* chess.Board(fen), which raises into the except clause for a FEN the rules
\* library rejects.
StartWalk ==
  /\ UNCHANGED <<q, out, xVars>>
  /\ pc = "idle"
  /\ \E fen \in Fens, depth \in Depths, max \in 0 .. MaxMoves :
       /\ op' = "pv" /\ argFen' = fen /\ argDepth' = depth /\ argMax' = max
       /\ pv_moves' = <<>> /\ pv_analysis' = <<>> /\ ideal' = <<>>
       /\ current_fen' = fen /\ move_num' = 0
       /\ IF ~IsFenValid(fen)
            THEN /\ pc' = "done" /\ status' = "ValueError" /\ pvResult' = NoPv
                 /\ failAt' = "none" /\ board' = 0
          ELSE IF ~BoardParses(fen)
            THEN LET r == WalkResult("raise", fen, <<>>, <<>>, depth) IN
                   /\ pc' = "done" /\ status' = r.status /\ pvResult' = r.pv
                   /\ failAt' = "Board" /\ board' = 0
          ELSE /\ pc' = "walk" /\ status' = "none" /\ pvResult' = NoPv
               /\ failAt' = "none" /\ board' = fen
  /\ nLoads' = 0 /\ nSearches' = 0
  /\ analysis' = NoAnalysis
  /\ UNCHANGED <<sfFen, sfDepth>>

\* One iteration of the loop; on break or on an exception the function
\* returns what it has.
WalkPly ==
  /\ UNCHANGED <<q, out, xVars>>
  /\ pc = "walk"
  /\ LoopContinues(move_num, argMax)
  /\ \E fp \in PlyFailPoints, ev \in PosEvals,
        uci \in BestMoveAnswers(current_fen) :
       LET o == PlyOutcome(current_fen, board, move_num, fp, ev, uci)
           free == PlyOutcome(current_fen, board, move_num, "none", ev, uci)
           moves == IF o.rec THEN Append(pv_moves, o.step.move_san) ELSE pv_moves
           steps == IF o.rec THEN Append(pv_analysis, o.step) ELSE pv_analysis
       IN
         /\ pv_moves' = moves /\ pv_analysis' = steps
         /\ ideal' = IF free.rec THEN Append(ideal, free.step) ELSE ideal
         /\ current_fen' = o.cur /\ board' = o.board
         /\ move_num' = move_num + 1
         /\ sfFen' = IF o.loads > 0 THEN current_fen ELSE sfFen
         /\ sfDepth' = IF o.searches > 0 THEN argDepth ELSE sfDepth
         /\ nLoads' = nLoads + o.loads /\ nSearches' = nSearches + o.searches
         /\ failAt' = o.at
         /\ IF o.exit = "continue"
              THEN pc' = "walk" /\ status' = "none" /\ pvResult' = NoPv
              ELSE LET r == WalkResult(o.exit, argFen, moves, steps, argDepth)
                   IN  pc' = "done" /\ status' = r.status /\ pvResult' = r.pv
  /\ UNCHANGED <<op, argFen, argDepth, argMax, analysis>>

\* The loop has run max_moves times: return.
WalkReturn ==
  /\ UNCHANGED <<q, out, xVars>>
  /\ pc = "walk"
  /\ ~LoopContinues(move_num, argMax)
  /\ LET r == WalkResult("end", argFen, pv_moves, pv_analysis, argDepth)
     IN  pc' = "done" /\ status' = r.status /\ pvResult' = r.pv
  /\ UNCHANGED <<op, argFen, argDepth, argMax, sfFen, sfDepth, nLoads,
                 nSearches, pv_moves, pv_analysis, current_fen, board,
                 move_num, analysis, failAt, ideal>>

\* The caller has taken the result; the analyzer keeps its engine handle.
NextCall ==
  /\ UNCHANGED <<q, out, xVars>>
  /\ pc = "done"
  /\ pc' = "idle" /\ op' = "none"
  /\ argFen' = 0 /\ argDepth' = DefaultDepth /\ argMax' = 0
  /\ nLoads' = 0 /\ nSearches' = 0
  /\ status' = "none" /\ analysis' = NoAnalysis /\ failAt' = "none"
  /\ WalkerIdle
  /\ UNCHANGED <<sfFen, sfDepth>>

Next == AnalyzePosition \/ StartWalk \/ WalkPly \/ WalkReturn \/ NextCall

Spec == Init /\ [][Next]_vars

\* ------------------------------------------- the classifiers on a query
\* The scores of the candidates: a grid whose differences meet every bound of
\* the quality scale, and mate scores.
CpGrid == {0, 1, 11, 51, 101, 201}
GridEvals == {Cp(v) : v \in CpGrid} \cup {Mate(1), Mate(-1)}

\* White to move, Black to move, and a position without a legal move
ClassifyFens == {0, 1, 4}

\* the outcomes of the analysis of the position after the move
AfterOutcomes ==
  {[status |-> "EngineError", evaluation |-> NoEval]}
    \cup {[status |-> "ok", evaluation |-> e] : e \in PosEvals}

\* A query: a position, a move in SAN and what the analysis of the position
\* answers (or that it raised).
InitClassify ==
  /\ InitAnalyzer
  /\ out = NoOut
  /\ XIdle
  /\ \E fen \in ClassifyFens, move \in SanMoves,
        fp \in {"none", "get_evaluation"} :
     \E ev \in (IF fp = "none" THEN PosEvals ELSE {NoEval}),
        uci \in (IF fp = "none" THEN BestMoveAnswers(fen) ELSE {NoMove}),
        top \in (IF fp = "none" THEN TopMovesAnswers(fen, GridEvals, MaxCand)
                 ELSE {<<>>}) :
       LET o == AnalyzeOutcome(fen, fp, ev, uci, top)
       IN  q = [fen |-> fen, move |-> move, before |-> o.status,
                analysis |-> o.analysis]

Before == [status |-> q.before, analysis |-> q.analysis]

EvaluateMoveQuality ==
  /\ out = NoOut
  /\ \E a \in AfterOutcomes : out' = RouterEvaluate(q.fen, q.move, Before, a)
  /\ UNCHANGED <<anVars, q, xVars>>

ValidateMoveChoice ==
  /\ out = NoOut
  /\ \E a \in AfterOutcomes, n \in {1, ValidateTopN} :
       out' = RouterValidate(q.fen, q.move, n, Before, a)
  /\ UNCHANGED <<anVars, q, xVars>>

EvaluateSpecificMove ==
  /\ out = NoOut
  /\ \E a \in AfterOutcomes : out' = CoachEvaluate(q.fen, q.move, Before, a)
  /\ UNCHANGED <<anVars, q, xVars>>

NextClassify ==
  EvaluateMoveQuality \/ ValidateMoveChoice \/ EvaluateSpecificMove

SpecClassify == InitClassify /\ [][NextClassify]_vars

\* ------------------------------------------------------------ properties
IsPrefix(s, t) == Len(s) <= Len(t) /\ \A i \in 1 .. Len(s) : s[i] = t[i]
Last(s) == s[Len(s)]
IsTerminal(p) == IsCheckmate(p) \/ IsStalemate(p) \/ IsInsufficientMaterial(p)
CheckFailPoints == {"is_checkmate", "is_stalemate", "is_insufficient_material"}

\* C1: the walker never holds or returns more than max_moves steps, whatever
\* the engine and the rules library answer; with max_moves = 0 it returns none.
C1_AtMostMaxMoves ==
  op = "pv" =>
    /\ Len(pv_moves) <= argMax
    /\ Len(pv_analysis) <= argMax
    /\ pvResult.total_moves <= argMax
    /\ Len(pvResult.pv_analysis) <= argMax
    /\ Len(pvResult.pv_moves) <= argMax

C1_Witness ==
  /\ pc = "done" /\ op = "pv" /\ status = "ok"
  /\ argMax = MaxMoves /\ Len(pvResult.pv_analysis) = argMax

\* C2: a step tagged checkmate, stalemate or insufficient_material is the last
\* step and its tag is what the rules library reports on the position after
\* the move; an untagged step leads into no position on which the library
\* reports such a condition (the library reports nothing when the check
\* itself raised, which ends the walk).
C2_TerminalStepIsLast ==
  op = "pv" =>
    /\ \A i \in 1 .. Len(pv_analysis) :
         LET s == pv_analysis[i] IN
           /\ s.result # "none" => i = Len(pv_analysis) /\ pc = "done"
           /\ s.result = "checkmate" => IsCheckmate(s.fen_after)
           /\ s.result = "stalemate" =>
                IsStalemate(s.fen_after) /\ ~IsCheckmate(s.fen_after)
           /\ s.result = "insufficient_material" =>
                IsInsufficientMaterial(s.fen_after) /\ ~IsStalemate(s.fen_after)
           /\ s.result = "none" /\ IsTerminal(s.fen_after) =>
                i = Len(pv_analysis) /\ pc = "done" /\ failAt \in CheckFailPoints
    /\ pc = "done" /\ status = "ok" => pvResult.pv_analysis = pv_analysis

C2_Witness ==
  /\ pc = "done" /\ op = "pv" /\ status = "ok"
  /\ Len(pvResult.pv_analysis) >= 2
  /\ Last(pvResult.pv_analysis).result = "stalemate"

\* C3 as stated: after a raise inside the walk the caller gets no exception
\* but the steps recorded so far, and these are a prefix of the steps the
\* walk records when nothing raises.
C3_PartialIsPrefix ==
  pc = "done" /\ op = "pv" /\ failAt # "none" =>
    /\ status = "ok"
    /\ IsPrefix(pvResult.pv_analysis, ideal)

\* C3 amended: after a raise inside the walk the caller gets no exception but
\* the steps recorded so far, in order; they are the steps the walk records
\* when nothing raises, except that the last one is untagged when the rules
\* library raised in the terminal checks of that step.
UpToTag(s, t) == s.result = "none" /\ s = [t EXCEPT !.result = "none"]
C3_PartialIsPrefixUpToLastTag ==
  pc = "done" /\ op = "pv" /\ failAt # "none" =>
    /\ status = "ok"
    /\ pvResult.pv_analysis = pv_analysis
    /\ pvResult.pv_moves = pv_moves
    /\ Len(pv_analysis) <= Len(ideal)
    /\ \A i \in 1 .. Len(pv_analysis) :
         \/ pv_analysis[i] = ideal[i]
         \/ /\ i = Len(pv_analysis) /\ failAt \in CheckFailPoints
            /\ UpToTag(pv_analysis[i], ideal[i])

C3_Witness ==
  /\ pc = "done" /\ op = "pv" /\ failAt = "get_best_move"
  /\ Len(pvResult.pv_analysis) >= 1

QTop == q.analysis.top_moves
QRanks == {i \in 1 .. Len(QTop) : QTop[i].Move = q.move}
QLegal == BoardParses(q.fen) /\ (q.move - SanOffset) \in LegalMoves(q.fen)
MateForMover(e) ==
  /\ e.type = "mate"
  /\ IF Turn(q.fen) = "White" THEN e.value > 0 ELSE e.value < 0
Ratings == {"Excellent", "Good", "Inaccuracy", "Mistake", "Blunder",
            "Questionable", "Bad", "Equal", "MinorInaccuracy"}

\* C6: the move the analysis reports as best move (the first candidate) is
\* rated Excellent with loss 0 by the router and by the coach, mate scores
\* and Black to move included.
C6_BestMoveIsExcellent ==
  ( /\ out.tool \in {"evaluate_move_quality", "evaluate_move"}
    /\ q.before = "ok" /\ q.move = q.analysis.best_move
    /\ Len(QTop) >= 1 /\ QTop[1].Move = q.move ) =>
    out.quality = "Excellent" /\ out.hasLoss /\ out.loss = 0

\* C7: the loss the router computes for a candidate other than the best one
\* is never negative, for White and for Black to move.
C7_LossNonNegative ==
  ( /\ out.tool = "evaluate_move_quality" /\ out.kind = "rated"
    /\ 1 \notin QRanks ) =>
    out.loss >= 0

\* C8: for a move of the candidate list, with centipawn scores for the
\* position, the move and the best candidate, the router rates the loss
\* against the best candidate: <= 10 Excellent, <= 50 Good, <= 100
\* Inaccuracy, <= 200 Mistake, above that Blunder.
C8_QualityScale ==
  \A i \in QRanks :
    ( /\ out.tool = "evaluate_move_quality" /\ q.before = "ok"
      /\ q.analysis.evaluation.type = "cp"
      /\ QTop[i].type = "cp" /\ QTop[1].type = "cp" ) =>
      LET loss == QTop[1].value - QTop[i].value IN
        /\ out.kind = "rated" /\ out.hasLoss /\ out.loss = loss
        /\ loss <= 10 => out.quality = "Excellent"
        /\ 10 < loss /\ loss <= 50 => out.quality = "Good"
        /\ 50 < loss /\ loss <= 100 => out.quality = "Inaccuracy"
        /\ 100 < loss /\ loss <= 200 => out.quality = "Mistake"
        /\ loss > 200 => out.quality = "Blunder"

C8_Witness ==
  /\ out.tool = "evaluate_move_quality" /\ out.kind = "rated"
  /\ out.loss = 100 /\ out.quality = "Inaccuracy"

\* C9: a legal move outside the candidate list gets a rating only from a
\* fresh analysis of the position after it, and is not rated Excellent or
\* equal to the best when that analysis is unavailable or a mate score is
\* involved.
C9_AbsentMoveNotRatedByDefault ==
  ( /\ out.tool # "none" /\ q.before = "ok"
    /\ QRanks = {} /\ QLegal ) =>
    /\ out.quality \in Ratings => out.after = "ok"
    /\ ( \/ out.after # "ok"
         \/ q.analysis.evaluation.type = "mate"
         \/ out.afterEval.type = "mate" ) =>
         out.quality \notin {"Excellent", "Equal"}

\* C10: with a mate score involved, a move that gives up the mover's forced
\* mate (for no mate, or for a mate by the other side) is rated Blunder, and
\* one that keeps or shortens it is rated Excellent.
C10_MateRule ==
  ( /\ out.tool \in {"evaluate_move_quality", "evaluate_move"}
    /\ q.before = "ok" /\ Len(QTop) >= 1 /\ MateForMover(QTop[1]) ) =>
    \A i \in QRanks :
      /\ ~MateForMover(QTop[i]) => out.quality = "Blunder"
      /\ ( /\ MateForMover(QTop[i])
           /\ Abs(QTop[i].value) <= Abs(QTop[1].value) ) =>
           out.quality = "Excellent"

\* ===================================================================
\* The analyzer calls of the router's tools and the time bound each carries
\* ===================================================================
\* time_limit = min(time_limit, 60.0)
HardLimit == 60
\* the limits chosen when the caller gives none, and the depths they apply from
AnalyzeDeepLimit == 6
EvaluateDeepLimit == 8
TopLinesDeepLimit == 30
RouterDeepDepth == 20
TopLinesDeepDepth == 25
\* the depth _evaluate_move_quality uses at most for its follow-up calls
FollowUpDepth == 20
RouterDepths == {DefaultDepth, RouterDeepDepth, TopLinesDeepDepth}

\* arguments.get("time_limit"): None, or a number of seconds
NoLimit == [given |-> FALSE, secs |-> 0]
Secs(n) == [given |-> TRUE, secs |-> n]
TimeLimitArgs == {NoLimit, Secs(1), Secs(HardLimit), Secs(HardLimit + 1)}

\* if time_limit is None: time_limit = deepSecs if depth >= deepFrom else 60.0
\* time_limit = min(time_limit, 60.0)
CappedLimit(tl, depth, deepFrom, deepSecs) ==
  LET chosen == IF tl.given THEN tl.secs
                ELSE IF depth >= deepFrom THEN deepSecs ELSE HardLimit
  IN  Secs(Min(chosen, HardLimit))

\* one call of the analyzer and the time bound it is given
AnalyzerCall(method, fen, depth, limit) ==
  [method |-> method, fen |-> fen, depth |-> depth, limit |-> limit]

\* MCPToolRouter._analyze_position
RouterAnalyzeCalls(fen, depth, tl) ==
  <<AnalyzerCall("analyze_position", fen, depth,
                 CappedLimit(tl, depth, RouterDeepDepth, AnalyzeDeepLimit))>>

\* MCPToolRouter._get_principal_variation
RouterPvCalls(fen, depth, tl) ==
  <<AnalyzerCall("get_principal_variation", fen, depth, tl)>>

\* MCPToolRouter._evaluate_move_quality: the analysis of the position, and for
\* a legal move outside the candidate list the analysis of the position after
\* it and the walk from there
RouterEvaluateCalls(fen, move, depth, tl, b, a) ==
  LET first == AnalyzerCall("analyze_position", fen, depth,
                 CappedLimit(tl, depth, RouterDeepDepth, EvaluateDeepLimit))
      top == b.analysis.top_moves
      fen_after == Apply(fen, ParseSan(fen, move))
      d == Min(depth, FollowUpDepth)
      after == AnalyzerCall("analyze_position", fen_after, d, NoLimit)
      walk == AnalyzerCall("get_principal_variation", fen_after, d, NoLimit)
  IN  IF b.status # "ok" THEN <<first>>
      ELSE IF FindMove(top, Len(top), move) # 0 THEN <<first>>
      ELSE IF MoveRejected(fen, move) THEN <<first>>
      ELSE IF a.status # "ok" THEN <<first, after>>
      ELSE <<first, after, walk>>

\* MCPToolRouter._get_top_lines: the analysis of the position and one walk for
\* each of the first num_lines candidates
RouterTopLinesCalls(fen, depth, tl, num_lines, b) ==
  LET first == AnalyzerCall("analyze_position", fen, depth,
                 CappedLimit(tl, depth, TopLinesDeepDepth, TopLinesDeepLimit))
      top == b.analysis.top_moves
      actual_lines == Min(num_lines, Len(top))
      line(i) == AnalyzerCall("get_principal_variation",
                              Apply(fen, ParseSan(fen, top[i].Move)), depth,
                              NoLimit)
  IN  IF b.status # "ok" THEN <<first>>
      ELSE <<first>> \o [i \in 1 .. actual_lines |-> line(i)]

RouterAnalyzePosition ==
  /\ calls = <<>>
  /\ \E depth \in RouterDepths, tl \in TimeLimitArgs :
       calls' = RouterAnalyzeCalls(q.fen, depth, tl)
  /\ UNCHANGED <<anVars, q, out, idVars, concVars, pawnVars, cliVars, toolVars>>

RouterGetPrincipalVariation ==
  /\ calls = <<>>
  /\ \E depth \in RouterDepths, tl \in TimeLimitArgs :
       calls' = RouterPvCalls(q.fen, depth, tl)
  /\ UNCHANGED <<anVars, q, out, idVars, concVars, pawnVars, cliVars, toolVars>>

RouterEvaluateMoveQuality ==
  /\ calls = <<>>
  /\ \E depth \in RouterDepths, tl \in TimeLimitArgs, a \in AfterOutcomes :
       calls' = RouterEvaluateCalls(q.fen, q.move, depth, tl, Before, a)
  /\ UNCHANGED <<anVars, q, out, idVars, concVars, pawnVars, cliVars, toolVars>>

RouterGetTopLines ==
  /\ calls = <<>>
  /\ \E depth \in RouterDepths, tl \in TimeLimitArgs, num_lines \in {1, TopN} :
       calls' = RouterTopLinesCalls(q.fen, depth, tl, num_lines, Before)
  /\ UNCHANGED <<anVars, q, out, idVars, concVars, pawnVars, cliVars, toolVars>>

NextRouter ==
  \/ RouterAnalyzePosition
  \/ RouterGetPrincipalVariation
  \/ RouterEvaluateMoveQuality
  \/ RouterGetTopLines

SpecRouter == InitClassify /\ [][NextRouter]_vars

\* C11: every analyzer call a router tool makes carries a time bound, and the
\* bound is at most 60 seconds, whatever time_limit the caller gives or omits.
C11_TimeCeiling ==
  \A i \in 1 .. Len(calls) :
    calls[i].limit.given /\ calls[i].limit.secs <= HardLimit

\* C12: a call of analyze_position on a valid position that returns a result
\* has issued exactly one search, and the best move it reports is the move of
\* the first candidate whenever there are candidates.
C12_OneSearch ==
  ( /\ pc = "done" /\ op = "analyze" /\ status = "ok" ) =>
    /\ nSearches = 1
    /\ analysis.top_moves # <<>> =>
         analysis.best_move = analysis.top_moves[1].Move

\* ===================================================================
\* One analyzer used for several operations, against a deterministic engine
\* ===================================================================
MaxRuns == 2
MaxSeed == 2

\* A deterministic engine answers a search from the position and the depth
\* loaded into it and from its own configuration (Threads, Hash, binary).  The
\* engines differ by seed; a tuned one answers differently under the default
\* configuration than under the one ChessAnalyzer.__init__ sets.
Engines == [seed : 0 .. MaxSeed, tuned : BOOLEAN]
EngineEvals == <<Cp(0), Cp(ExtremeCp), Mate(1)>>
EngineAnswer(e, fen, depth, cfg) ==
  LET k == e.seed + fen + (IF depth = DefaultDepth THEN 0 ELSE 1)
             + (IF e.tuned /\ cfg = "default" THEN 1 ELSE 0)
      ev == EngineEvals[(k % Len(EngineEvals)) + 1]
      uci == IF LegalMoves(fen) = {} THEN NoMove ELSE (k % NMoves) + 1
  IN  [ev |-> ev, uci |-> uci,
       top |-> IF uci = NoMove THEN <<>> ELSE <<Entry(uci, ev)>>]

\* the analyzer's variables other than the state of self.stockfish
anRest == <<pc, op, argFen, argDepth, argMax, nLoads, nSearches, pv_moves,
            pv_analysis, current_fen, board, move_num, status, analysis,
            pvResult, failAt, ideal>>

\* the game analyze_game replays starts from the initial position
StartFen == 0

\* the position left in the engine by a walk: the one of its last iteration
RECURSIVE WalkLoaded(_, _, _, _, _, _, _, _)
WalkLoaded(e, cfg, loaded, cur, b, n, max, depth) ==
  IF ~LoopContinues(n, max) THEN loaded
  ELSE LET a == EngineAnswer(e, cur, depth, cfg)
           o == PlyOutcome(cur, b, n, "none", a.ev, a.uci)
       IN  IF o.exit = "continue"
             THEN WalkLoaded(e, cfg, cur, o.cur, o.board, n + 1, max, depth)
             ELSE cur

InitIdem ==
  /\ InitAnalyzer /\ q = NoQuery /\ out = NoOut /\ calls = <<>>
  /\ ConcIdle /\ PawnIdle /\ CliIdle /\ ToolIdle
  /\ handle = "configured" /\ runs = <<>>
  /\ eng \in Engines

\* analyze_position(fen, depth): loads the position, sets the depth, searches
IdemAnalyze ==
  /\ Len(runs) < MaxRuns
  /\ \E fen \in ClassifyFens, depth \in Depths :
       LET a == EngineAnswer(eng, fen, depth, handle)
           o == AnalyzeOutcome(fen, "none", a.ev, a.uci, a.top)
       IN  /\ sfFen' = fen
           /\ sfDepth' = depth
           /\ runs' = Append(runs, [fen |-> fen, depth |-> depth,
                                    status |-> o.status,
                                    analysis |-> o.analysis])
  /\ UNCHANGED <<anRest, q, out, calls, handle, eng, concVars, pawnVars, cliVars, toolVars>>

\* get_principal_variation(fen, depth, max_moves) run in between
IdemWalk ==
  /\ \E fen \in ClassifyFens, depth \in Depths, max \in 0 .. MaxMoves :
       /\ sfFen' = WalkLoaded(eng, handle, sfFen, fen, fen, 0, max, depth)
       /\ sfDepth' = IF LoopContinues(0, max) THEN depth ELSE sfDepth
  /\ UNCHANGED <<anRest, q, out, calls, handle, eng, runs, concVars, pawnVars, cliVars, toolVars>>

\* analyze_game(moves) run in between, with no move or with one: for a move it
\* replaces self.stockfish by Stockfish() (unless the constructor raises) and
\* analyzes the position after the move at the default depth
IdemAnalyzeGame ==
  /\ \E moves \in {<<>>} \cup {<<m>> : m \in LegalMoves(StartFen)},
        built \in BOOLEAN :
       IF moves = <<>> \/ ~built
         THEN UNCHANGED <<handle, sfFen, sfDepth>>
         ELSE /\ handle' = "default"
              /\ sfFen' = Apply(StartFen, moves[1])
              /\ sfDepth' = DefaultDepth
  /\ UNCHANGED <<anRest, q, out, calls, eng, runs, concVars, pawnVars, cliVars, toolVars>>

NextIdem == IdemAnalyze \/ IdemWalk \/ IdemAnalyzeGame

SpecIdem == InitIdem /\ [][NextIdem]_vars

\* C13: two calls of analyze_position with the same arguments on one analyzer
\* return the same content, whatever was run on the analyzer in between.
C13_SameArgumentsSameResult ==
  \A i, j \in 1 .. Len(runs) :
    runs[i].fen = runs[j].fen /\ runs[i].depth = runs[j].depth =>
      runs[i].status = runs[j].status /\ runs[i].analysis = runs[j].analysis

\* ------------------------------------- further properties of the walker
\* the walk has returned a variation and nothing raised in it
WalkEndedFree == pc = "done" /\ op = "pv" /\ status = "ok" /\ failAt = "none"

\* C14: when the best move the engine answers in the start position delivers
\* checkmate and max_moves >= 1, a walk in which nothing raises returns
\* exactly one step, tagged checkmate.
C14_MateInOne ==
  ( /\ WalkEndedFree /\ argMax >= 1
    /\ Len(ideal) >= 1 /\ IsCheckmate(ideal[1].fen_after) ) =>
    /\ Len(pvResult.pv_analysis) = 1
    /\ pvResult.total_moves = 1
    /\ pvResult.pv_analysis[1].result = "checkmate"
    /\ pvResult.pv_analysis[1].fen_before = argFen

C14_Witness ==
  /\ WalkEndedFree /\ argMax >= 2 /\ Turn(argFen) = "Black"
  /\ Len(pvResult.pv_analysis) = 1
  /\ pvResult.pv_analysis[1].result = "checkmate"
  /\ pvResult.pv_analysis[1].evaluation = Mate(-1)

\* C15 as stated: a walk in which nothing raised has max_moves steps or a
\* terminal tag on its last step.
C15_CompleteOrTagged ==
  WalkEndedFree =>
    \/ Len(pvResult.pv_analysis) = argMax
    \/ /\ pvResult.pv_analysis # <<>>
       /\ Last(pvResult.pv_analysis).result # "none"

\* C15 amended: a walk in which nothing raised has max_moves steps, or a
\* terminal tag on its last step, or a last step whose evaluation is a mate
\* score or a centipawn score above 2000 in absolute value (the early stop),
\* or no step at all because the start position has no legal move.
C15_CompleteTaggedOrStopped ==
  WalkEndedFree =>
    \/ Len(pvResult.pv_analysis) = argMax
    \/ /\ pvResult.pv_analysis # <<>>
       /\ LET s == Last(pvResult.pv_analysis) IN
            \/ s.result # "none"
            \/ s.evaluation.type = "mate"
            \/ s.evaluation.type = "cp" /\ s.evaluation.value > ExtremeCp
            \/ s.evaluation.type = "cp" /\ s.evaluation.value < 0 - ExtremeCp
    \/ /\ pvResult.pv_analysis = <<>>
       /\ LegalMoves(argFen) = {}

C15_Witness ==
  /\ WalkEndedFree /\ argMax = MaxMoves
  /\ Len(pvResult.pv_analysis) = 2
  /\ Last(pvResult.pv_analysis).result = "none"
  /\ Last(pvResult.pv_analysis).evaluation = Cp(0 - ExtremeCp - 1)

\* C16: the steps of a variation form a chain from the start position: each
\* step starts where the previous one ended, ends in the position its move
\* leads to, and names the side to move in the position it starts from, so
\* the sides alternate.
C16_StepsFormChain ==
  op = "pv" =>
    /\ Len(pv_moves) = Len(pv_analysis)
    /\ pv_analysis # <<>> => pv_analysis[1].fen_before = argFen
    /\ \A i \in 1 .. Len(pv_analysis) :
         LET s == pv_analysis[i] IN
           /\ s.move_number = i
           /\ pv_moves[i] = s.move_san
           /\ s.move_uci \in LegalMoves(s.fen_before)
           /\ s.move_san = s.move_uci + SanOffset
           /\ s.fen_after = (s.fen_before + 2 * s.move_uci - 1) % NPos
           /\ s.to_move = "White" <=> s.fen_before % 2 = 0
           /\ s.to_move = "Black" <=> s.fen_before % 2 = 1
           /\ i < Len(pv_analysis) =>
                /\ pv_analysis[i + 1].fen_before = s.fen_after
                /\ pv_analysis[i + 1].to_move # s.to_move
    /\ pc = "walk" => current_fen = board
    /\ pc = "done" /\ status = "ok" => pvResult.pv_analysis = pv_analysis

C16_Witness ==
  /\ pc = "done" /\ op = "pv" /\ status = "ok"
  /\ Len(pvResult.pv_analysis) = 3
  /\ pvResult.pv_analysis[1].to_move = "Black"
  /\ pvResult.pv_analysis[3].fen_before # argFen

\* a mate score, or a centipawn score beyond 2000 in absolute value
Decided(ev) ==
  \/ ev.type = "mate"
  \/ ev.type = "cp" /\ (ev.value > ExtremeCp \/ ev.value < 0 - ExtremeCp)

\* C18: no step follows a step whose evaluation is a mate score or a
\* centipawn score beyond 2000; a step with a centipawn score within 2000
\* (2000 included) and no terminal tag is the last one only when the step
\* cap is reached or a failure ended the walk.
C18_EarlyStop ==
  op = "pv" =>
    /\ \A i \in 1 .. (Len(pv_analysis) - 1) :
         ~Decided(pv_analysis[i].evaluation)
    /\ pc = "walk" /\ pv_analysis # <<>> =>
         ~Decided(Last(pv_analysis).evaluation)
    /\ ( /\ pc = "done" /\ status = "ok" /\ pv_analysis # <<>>
         /\ ~Decided(Last(pv_analysis).evaluation)
         /\ Last(pv_analysis).result = "none" ) =>
         \/ Len(pv_analysis) = argMax
         \/ failAt # "none"
         \/ LegalMoves(Last(pv_analysis).fen_after) = {}

C18_Witness ==
  /\ pc = "done" /\ op = "pv" /\ status = "ok" /\ failAt = "none"
  /\ argMax = MaxMoves /\ Len(pvResult.pv_analysis) = 2
  /\ pvResult.pv_analysis[1].evaluation = Cp(ExtremeCp)
  /\ pvResult.pv_analysis[2].evaluation = Mate(1)
  /\ pvResult.pv_analysis[2].result = "none"

\* ===================================================================
\* Requests and engine handles in the web interface and in the MCP servers
\* ===================================================================
NReq == 2
MaxSeqs == 2
Requests == 1 .. NReq

\* the commands of one analysis on self.stockfish, in order
EngineSequence == <<"set_fen_position", "set_depth", "search", "read">>

\* the analyzer the MCP servers build once, in main()
SharedHandle == 0
Handles == {SharedHandle} \cup Requests

\* (variant: the web interface keeps one router for all requests)
HandleOfShared(dep, r) == SharedHandle

\* The engine handle a request works on: a web request builds its own router,
\* analyzer and engine; a tool call of an MCP server uses the shared analyzer.
HandleOf(dep, r) == IF dep = "web" THEN r ELSE SharedHandle

NewReq == [state |-> "new", handle |-> SharedHandle, n |-> 1, seq |-> 1,
           cmd |-> 1]

InitConc ==
  /\ InitAnalyzer /\ q = NoQuery /\ out = NoOut /\ calls = <<>>
  /\ IdIdle /\ PawnIdle /\ CliIdle /\ ToolIdle
  /\ deployment \in {"web", "mcp"}
  /\ reqs = [r \in Requests |-> NewReq]
  /\ loop = 0
  /\ elog = [h \in Handles |-> <<>>]

\* A request arrives and its handler starts; it will run n analyses.  The web
\* server runs each request in a thread of its own; the event loop of an MCP
\* server starts a handler only when it runs no other.
RequestArrives(r) ==
  /\ reqs[r].state = "new"
  /\ IF deployment = "mcp" THEN loop = 0 /\ loop' = r ELSE UNCHANGED loop
  /\ \E n \in 1 .. MaxSeqs :
       reqs' = [reqs EXCEPT ![r] = [state |-> "run",
                                    handle |-> HandleOf(deployment, r),
                                    n |-> n, seq |-> 1, cmd |-> 1]]
  /\ UNCHANGED <<anVars, q, out, calls, idVars, pawnVars, cliVars, toolVars, deployment, elog>>

\* The handler of r issues its next engine command.  A handler of an MCP
\* server has no suspension point: it keeps the event loop until it returns.
EngineCommand(r) ==
  /\ reqs[r].state = "run"
  /\ deployment = "mcp" => loop = r
  /\ LET c == reqs[r]
         last == c.cmd = Len(EngineSequence)
         done == last /\ c.seq = c.n
     IN  /\ elog' = [elog EXCEPT ![c.handle] =
                       Append(@, [req |-> r, seq |-> c.seq,
                                  cmd |-> EngineSequence[c.cmd]])]
         /\ reqs' = [reqs EXCEPT ![r] =
                       IF done THEN [c EXCEPT !.state = "done"]
                       ELSE IF last THEN [c EXCEPT !.seq = c.seq + 1, !.cmd = 1]
                       ELSE [c EXCEPT !.cmd = c.cmd + 1]]
         /\ loop' = IF done /\ deployment = "mcp" THEN 0 ELSE loop
  /\ UNCHANGED <<anVars, q, out, calls, idVars, pawnVars, cliVars, toolVars, deployment>>

NextConc == \E r \in Requests : RequestArrives(r) \/ EngineCommand(r)

SpecConc == InitConc /\ [][NextConc]_vars

\* C17: on every engine handle the commands of one analysis are executed in
\* order and next to each other: no command of another request, or of
\* another analysis, comes between them.
C17_NoInterleaving ==
  \A h \in DOMAIN elog :
    \A i, k \in 1 .. Len(elog[h]) :
      ( /\ i < k
        /\ elog[h][i].req = elog[h][k].req
        /\ elog[h][i].seq = elog[h][k].seq ) =>
        /\ \A j \in i .. k :
             /\ elog[h][j].req = elog[h][i].req
             /\ elog[h][j].seq = elog[h][i].seq
        /\ k - i < Len(EngineSequence)
        /\ elog[h][i].cmd = EngineSequence[1] =>
             elog[h][k].cmd = EngineSequence[k - i + 1]

C17_Witness ==
  /\ deployment = "web"
  /\ reqs[1].state = "run" /\ reqs[1].cmd = 3
  /\ reqs[2].state = "run" /\ reqs[2].cmd = 2
  /\ Len(elog[1]) >= 2 /\ Len(elog[2]) >= 1

\* ===================================================================
\* Pawn structure: analyze_passed_pawns and analyze_pawn_majorities
\* ===================================================================
MaxRank == 2
MaxPawns == 3
\* files and ranks are numbered 0 .. 7
BoardSize == 8
Colors == {"white", "black"}

\* board.piece_at(square) is a pawn of that colour
Pawn(file, rank, color) == [file |-> file, rank |-> rank, color |-> color]
PawnAt(b, file, rank, color) == Pawn(file, rank, color) \in b
\* chess.square(file, rank), the order of chess.SQUARES
SquareIndex(p) == p.rank * BoardSize + p.file
SquareName(p) == [file |-> p.file, rank |-> p.rank]

\* The pawns that may be put on the boards tried: ranks 1 .. MaxRank of the
\* edge files a and h, the files d and e on either side of the wings, and b.
TriedFiles == {0, 1, 3, 4, 7}
PawnChoices ==
  {Pawn(f, r, c) : f \in TriedFiles, r \in 1 .. MaxRank, c \in Colors}
\* the boards with at most n pawns, one per square at most
RECURSIVE BoardsUpTo(_)
BoardsUpTo(n) ==
  IF n = 0 THEN {{}}
  ELSE LET less == BoardsUpTo(n - 1)
           top(b) == IF b = {} THEN 0 - 1
                     ELSE CHOOSE i \in {SquareIndex(x) : x \in b} :
                            \A x \in b : SquareIndex(x) <= i
       IN  less \cup
             UNION {{b \cup {p} : p \in {y \in PawnChoices :
                                           SquareIndex(y) > top(b)}} :
                    b \in {x \in less : Cardinality(x) = n - 1}}

\* the pawns of 8/4k1p1/2p5/4K3/8/3P4/6P1/8 w
TestPosition ==
  {Pawn(3, 2, "white"), Pawn(6, 1, "white"),
   Pawn(6, 6, "black"), Pawn(2, 5, "black")}

Enemy(color) == IF color = "white" THEN "black" ELSE "white"

\* (variant: only the pawn's own file is looked at)
IsPassedOwnFileOnly(b, p) ==
  LET ahead == IF p.color = "white" THEN (p.rank + 1) .. (BoardSize - 1)
               ELSE 0 .. (p.rank - 1)
  IN  ~\E check_rank \in ahead : PawnAt(b, p.file, check_rank, Enemy(p.color))

\* is_passed after the loops over the ranks ahead and the three files
IsPassed(b, p) ==
  LET ahead == IF p.color = "white" THEN (p.rank + 1) .. (BoardSize - 1)
               ELSE 0 .. (p.rank - 1)
  IN  ~\E check_rank \in ahead, check_file \in {p.file - 1, p.file, p.file + 1} :
         /\ 0 <= check_file /\ check_file <= BoardSize - 1
         /\ PawnAt(b, check_file, check_rank, Enemy(p.color))

\* the squares of a set of pawns as a list in the order of chess.SQUARES
RECURSIVE SquareList(_)
SquareList(ps) ==
  IF ps = {} THEN <<>>
  ELSE LET first == CHOOSE x \in ps :
                      \A y \in ps : SquareIndex(x) <= SquareIndex(y)
       IN  <<SquareName(first)>> \o SquareList(ps \ {first})

\* passed_pawns[color]
PassedPawns(b, color) ==
  SquareList({p \in b : p.color = color /\ IsPassed(b, p)})

\* the line of the report for one side: the squares, or None
PassedText(list) == IF list # <<>> THEN "squares" ELSE "None"

\* what analyze_passed_pawns reports
PassedPawnsReport(b) ==
  LET white == PassedPawns(b, "white")
      black == PassedPawns(b, "black")
      total_passed == Len(white) + Len(black)
  IN  [white |-> white, black |-> black,
       white_text |-> PassedText(white), black_text |-> PassedText(black),
       verified_none |-> total_passed = 0, count |-> total_passed]

\* queenside_files = [0, 1, 2, 3]
QueensideFiles == {0, 1, 2, 3}

\* white_queenside, black_queenside, white_kingside, black_kingside
WingCount(b, color, queenside) ==
  Cardinality({p \in b : p.color = color
                         /\ (p.file \in QueensideFiles) = queenside})

\* (variant: equal counts taken for a majority)
WingVerdictAtLeast(white, black) ==
  IF white >= black THEN "White" ELSE "Black"

\* the line of the report for one wing
WingVerdict(white, black) ==
  IF white > black THEN "White"
  ELSE IF black > white THEN "Black"
  ELSE "Equal"

\* what analyze_pawn_majorities reports
PawnMajoritiesReport(b) ==
  LET white_queenside == WingCount(b, "white", TRUE)
      black_queenside == WingCount(b, "black", TRUE)
      white_kingside == WingCount(b, "white", FALSE)
      black_kingside == WingCount(b, "black", FALSE)
      total_majorities ==
        (IF white_queenside # black_queenside THEN 1 ELSE 0)
          + (IF white_kingside # black_kingside THEN 1 ELSE 0)
  IN  [queenside |-> WingVerdict(white_queenside, black_queenside),
       kingside |-> WingVerdict(white_kingside, black_kingside),
       verified_none |-> total_majorities = 0, count |-> total_majorities]

InitPawns ==
  /\ InitAnalyzer /\ q = NoQuery /\ out = NoOut /\ calls = <<>>
  /\ IdIdle /\ ConcIdle /\ CliIdle /\ ToolIdle
  /\ pawnBoard \in BoardsUpTo(MaxPawns) \cup {TestPosition}
  /\ passedReport = NoPassedReport /\ majReport = NoMajReport

\* analyze_passed_pawns(board); its report ends with the one on majorities
AnalyzePassedPawns ==
  /\ passedReport = NoPassedReport
  /\ passedReport' = PassedPawnsReport(pawnBoard)
  /\ majReport' = PawnMajoritiesReport(pawnBoard)
  /\ UNCHANGED <<anVars, q, out, calls, idVars, concVars, cliVars, toolVars, pawnBoard>>

\* analyze_pawn_majorities(board)
AnalyzePawnMajorities ==
  /\ majReport = NoMajReport
  /\ majReport' = PawnMajoritiesReport(pawnBoard)
  /\ UNCHANGED <<anVars, q, out, calls, idVars, concVars, cliVars, toolVars, pawnBoard,
                 passedReport>>

NextPawns == AnalyzePassedPawns \/ AnalyzePawnMajorities

SpecPawns == InitPawns /\ [][NextPawns]_vars

\* an enemy pawn stands on the file of p or next to it, on a rank ahead of p
Stopped(p) ==
  \E e \in pawnBoard :
    /\ e.color # p.color
    /\ e.file - p.file \in {0 - 1, 0, 1}
    /\ IF p.color = "white" THEN e.rank > p.rank ELSE e.rank < p.rank
Listed(list, p) ==
  \E i \in 1 .. Len(list) : list[i] = [file |-> p.file, rank |-> p.rank]

\* C19: the report lists a pawn as passed exactly when no enemy pawn stands
\* on its file or a neighbouring file on a rank ahead of it; a side without
\* such a pawn gets None, and without any the report carries the
\* no-passed-pawns verification line.
C19_PassedPawns ==
  passedReport # NoPassedReport =>
    /\ \A p \in pawnBoard :
         /\ p.color = "white" =>
              (Listed(passedReport.white, p) <=> ~Stopped(p))
         /\ p.color = "black" =>
              (Listed(passedReport.black, p) <=> ~Stopped(p))
    /\ \A i \in 1 .. Len(passedReport.white) :
         [file |-> passedReport.white[i].file,
          rank |-> passedReport.white[i].rank, color |-> "white"] \in pawnBoard
    /\ \A i \in 1 .. Len(passedReport.black) :
         [file |-> passedReport.black[i].file,
          rank |-> passedReport.black[i].rank, color |-> "black"] \in pawnBoard
    /\ passedReport.count = Cardinality({p \in pawnBoard : ~Stopped(p)})
    /\ passedReport.white_text = "None" <=>
         \A p \in pawnBoard : p.color = "white" => Stopped(p)
    /\ passedReport.black_text = "None" <=>
         \A p \in pawnBoard : p.color = "black" => Stopped(p)
    /\ passedReport.verified_none <=> \A p \in pawnBoard : Stopped(p)

C19_Witness ==
  /\ pawnBoard = TestPosition
  /\ passedReport.white_text = "None" /\ passedReport.black_text = "None"
  /\ passedReport.verified_none

\* the pawns of a colour on the files a-d (queenside) or e-h (kingside)
OnWing(color, lo, hi) ==
  Cardinality({p \in pawnBoard : p.color = color /\ lo <= p.file /\ p.file <= hi})

\* C20: the report gives a colour the majority on a wing exactly when it has
\* more pawns there than the other colour (queenside: files a-d, kingside:
\* files e-h); the count is the number of wings with unequal counts, and with
\* both wings equal the report says that no pawn majority exists.
C20_PawnMajorities ==
  majReport # NoMajReport =>
    LET wq == OnWing("white", 0, 3)
        bq == OnWing("black", 0, 3)
        wk == OnWing("white", 4, 7)
        bk == OnWing("black", 4, 7)
    IN  /\ majReport.queenside = "White" <=> wq > bq
        /\ majReport.queenside = "Black" <=> bq > wq
        /\ majReport.queenside = "Equal" <=> wq = bq
        /\ majReport.kingside = "White" <=> wk > bk
        /\ majReport.kingside = "Black" <=> bk > wk
        /\ majReport.kingside = "Equal" <=> wk = bk
        /\ majReport.count = Cardinality({w \in {"q", "k"} :
                                IF w = "q" THEN wq # bq ELSE wk # bk})
        /\ majReport.verified_none <=> (wq = bq /\ wk = bk)

C20_Witness ==
  /\ Cardinality(pawnBoard) = MaxPawns
  /\ majReport.queenside = "Black" /\ majReport.kingside = "Equal"
  /\ majReport.count = 1 /\ OnWing("white", 0, 3) = 1
  /\ OnWing("white", 4, 7) = 0

\* ---------------------------------------------------------------------
\* OpenRouterClient.chat_completion (openrouter_cli.py): the retry loop.
\* One action per pass of the for statement, since every pass waits for
\* an answer of the server.

\* max_retries when the caller does not give it
DefaultMaxRetries == 3
\* the values of max_retries tried; with -1 the loop body never runs
RetryArgs == -1 .. DefaultMaxRetries

\* what session.post can come back with: a status and a body, or no
\* answer at all (status 0: the connection failed and post raised)
NoAnswer == [status |-> 0, body |-> "none"]
Responses ==
  [status : {200}, body : {"json", "garbage"}]
    \cup [status : {400, 429, 499, 500}, body : {"json"}]
    \cup {NoAnswer}

\* response.raise_for_status(): HTTPError for 400..599
RaisesForStatusNever(r) == FALSE
RaisesForStatus(r) == r.status >= 400 /\ r.status < 600

\* range(max_retries + 1)
Attempts(mr) == 0 .. mr

RECURSIVE Pow2(_)
Pow2(k) == IF k <= 0 THEN 1 ELSE 2 * Pow2(k - 1)

\* the wait before the next attempt
WaitTimeFlat(code, k) == 1
WaitTime(code, k) == IF code = 429 THEN Pow2(k) ELSE 1

\* the exception one pass catches, NoError if the pass returns
ErrorOf(r) ==
  IF r = NoAnswer THEN [type |-> "ConnectionError", status |-> 0]
  ELSE IF RaisesForStatus(r) THEN [type |-> "HTTPError", status |-> r.status]
  ELSE IF r.body # "json" THEN [type |-> "JSONDecodeError", status |-> r.status]
  ELSE NoError

\* one pass of the loop on answer r: return, raise, or sleep and continue
AttemptOutcome(r, k, mr) ==
  LET e == ErrorOf(r) IN
  IF e = NoError THEN [exit |-> "return", wait |-> 0, error |-> e]
  ELSE IF e.type = "HTTPError" /\ e.status # 429 /\ e.status < 500
    THEN [exit |-> "raise", wait |-> 0, error |-> e]
  ELSE IF k < mr
    THEN [exit |-> "continue", wait |-> WaitTime(e.status, k), error |-> e]
  ELSE [exit |-> "raise", wait |-> 0, error |-> e]

UnknownError == [type |-> "Exception", status |-> 0]

Post(r) == [ev |-> "post", status |-> r.status, body |-> r.body, n |-> 0]
Sleep(n) == [ev |-> "sleep", status |-> 0, body |-> "none", n |-> n]

InitHttp == CoreIdle /\ CliIdle

ChatCompletion ==
  /\ httpPc # "loop"
  /\ \E mr \in RetryArgs : max_retries' = mr
  /\ httpPc' = "loop" /\ attempt' = 0 /\ last_error' = NoError
  /\ hlog' = <<>> /\ httpResult' = NoResult
  /\ UNCHANGED <<coreVars, convVars, chatVars>>

ChatCompletionAttempt ==
  /\ httpPc = "loop" /\ attempt \in Attempts(max_retries)
  /\ \E r \in Responses :
       LET o == AttemptOutcome(r, attempt, max_retries) IN
       /\ last_error' = o.error
       /\ hlog' = IF o.exit = "continue"
                    THEN hlog \o <<Post(r), Sleep(o.wait)>>
                    ELSE Append(hlog, Post(r))
       /\ httpPc' = CASE o.exit = "return" -> "returned"
                      [] o.exit = "raise" -> "raised"
                      [] OTHER -> "loop"
       /\ httpResult' = CASE o.exit = "return" -> [NoResult EXCEPT !.response = r]
                          [] o.exit = "raise" -> [NoResult EXCEPT !.error = o.error]
                          [] OTHER -> httpResult
       /\ attempt' = IF o.exit = "continue" THEN attempt + 1 ELSE attempt
  /\ UNCHANGED <<coreVars, convVars, chatVars, max_retries>>

\* the statement after the loop
ChatCompletionFallThrough ==
  /\ httpPc = "loop" /\ attempt \notin Attempts(max_retries)
  /\ httpPc' = "raised"
  /\ httpResult' = [NoResult EXCEPT !.error =
                       IF last_error # NoError THEN last_error ELSE UnknownError]
  /\ UNCHANGED <<coreVars, convVars, chatVars, max_retries, attempt, last_error,
               hlog>>

NextHttp == ChatCompletion \/ ChatCompletionAttempt \/ ChatCompletionFallThrough

\* the loop is sequential code: a pass that can run does run
SpecHttp ==
  /\ InitHttp /\ [][NextHttp]_vars
  /\ WF_vars(ChatCompletionAttempt) /\ WF_vars(ChatCompletionFallThrough)

Posts == SelectSeq(hlog, LAMBDA e : e.ev = "post")
IsSuccess(e) == e.ev = "post" /\ e.status = 200 /\ e.body = "json"

\* C21: one call of chat_completion sends at most max_retries + 1
\* requests; it returns only the first successful response and sends
\* nothing after it; it raises only the last error (the generic one if
\* no request was sent); and every call ends by returning or raising.
C21_BoundedRetries ==
  /\ [](/\ Len(Posts) <= max_retries + 1
        /\ \A i \in 1 .. Len(hlog) - 1 : ~IsSuccess(hlog[i])
        /\ httpPc = "returned" =>
             /\ hlog # <<>> /\ IsSuccess(hlog[Len(hlog)])
             /\ httpResult.response = [status |-> 200, body |-> "json"]
             /\ httpResult.error = NoError
        /\ httpPc = "raised" =>
             /\ httpResult.response = NoResponse
             /\ IF hlog = <<>> THEN httpResult.error = UnknownError
                ELSE /\ hlog[Len(hlog)].ev = "post"
                     /\ ~IsSuccess(hlog[Len(hlog)])
                     /\ httpResult.error.type \in
                          {"HTTPError", "ConnectionError", "JSONDecodeError"}
                     /\ httpResult.error.status = hlog[Len(hlog)].status)
  /\ (httpPc = "loop" ~> httpPc \in {"returned", "raised"})

C21_Witness ==
  /\ httpPc = "raised" /\ max_retries = DefaultMaxRetries
  /\ Len(Posts) = DefaultMaxRetries + 1

\* C22: a 4xx status other than 429 is raised at once: nothing follows
\* the request that met it, and it is the only request when it is the
\* first answer.  Every other failure is followed, while attempts
\* remain, by a wait and the next request; the wait after a 429 on
\* attempt k is 2^k seconds and 1 second otherwise.
IsClientError(e) ==
  e.ev = "post" /\ e.status >= 400 /\ e.status < 500 /\ e.status # 429
AttemptOf(i) == Len(SelectSeq(SubSeq(hlog, 1, i - 1), LAMBDA e : e.ev = "post"))
C22_RetryPolicy ==
  \A i \in 1 .. Len(hlog) :
    LET e == hlog[i]
        k == AttemptOf(i) IN
    /\ IsClientError(e) =>
         /\ i = Len(hlog) /\ httpPc = "raised"
         /\ httpResult.error = [type |-> "HTTPError", status |-> e.status]
    /\ e.ev = "post" /\ ~IsSuccess(e) /\ ~IsClientError(e) /\ k < max_retries =>
         /\ i < Len(hlog)
         /\ hlog[i + 1] = Sleep(IF e.status = 429 THEN Pow2(k) ELSE 1)
         /\ IF i + 1 = Len(hlog) THEN httpPc = "loop"
            ELSE hlog[i + 2].ev = "post"
    /\ e.ev = "sleep" => i > 1 /\ hlog[i - 1].ev = "post"

C22_Witness ==
  /\ httpPc = "raised" /\ Len(hlog) = 7
  /\ hlog[2] = Sleep(1) /\ hlog[4] = Sleep(2) /\ hlog[6] = Sleep(4)
  /\ IsClientError(hlog[7])

\* ---------------------------------------------------------------------
\* ConversationManager (openrouter_cli.py): the history is a list object;
\* lists have identity, so that a copy and an alias differ.

MaxHistory == 3

\* a list id no reference holds
Alloc == CHOOSE i \in ListIds : i \notin {self_messages, returned}

\* self.messages.copy()
AliasList(h, src) == [heap |-> h, ref |-> src]
CopyList(h, src) ==
  LET n == Alloc IN [heap |-> [h EXCEPT ![n] = h[src]], ref |-> n]

\* the list self.messages refers to
messages == heap[self_messages]

UserMessage == Message("user", 0, "", "text", <<>>)
ToolCall(id, name, arguments) ==
  [id |-> id, name |-> name, arguments |-> arguments]
\* message["tool_calls"] is set only for a non-empty list
AssistantMessage(content, tool_calls) ==
  Message("assistant", 0, "", content, tool_calls)
ToolMessage(id, name, result) == Message("tool", id, name, result, <<>>)

\* the list after a caller dropped its reference to list id
Dropped(h, id) ==
  IF id = NoList \/ id = self_messages THEN h ELSE [h EXCEPT ![id] = <<>>]

InitConv == CoreIdle /\ CliIdle

\* self.messages.append(msg)
Appended(msg) == [heap EXCEPT ![self_messages] = Append(@, msg)]

AddUserMessage ==
  /\ Len(messages) < MaxHistory
  /\ heap' = Appended(UserMessage)
  /\ convOp' = "add_user_message"
  /\ UNCHANGED <<coreVars, httpVars, chatVars, self_messages, returned,
                 tool_call_count>>

AddAssistantMessage ==
  /\ Len(messages) < MaxHistory
  /\ \E tcs \in {<<>>, <<ToolCall(1, "analyze_position", "fen")>>} :
       heap' = Appended(AssistantMessage("text", tcs))
  /\ convOp' = "add_assistant_message"
  /\ UNCHANGED <<coreVars, httpVars, chatVars, self_messages, returned,
                 tool_call_count>>

AddToolResult ==
  /\ Len(messages) < MaxHistory
  /\ heap' = Appended(ToolMessage(1, "analyze_position", "result"))
  /\ convOp' = "add_tool_result"
  /\ UNCHANGED <<coreVars, httpVars, chatVars, self_messages, returned,
                 tool_call_count>>

\* reset binds self.messages to a new one-element list, or clears the
\* list in place when its first entry is not the system message
ConvReset ==
  /\ IF messages # <<>> /\ messages[1].role = "system"
       THEN LET n == Alloc IN
            /\ heap' = [i \in ListIds |->
                          IF i = n THEN <<messages[1]>>
                          ELSE IF i = self_messages /\ returned # i THEN <<>>
                          ELSE heap[i]]
            /\ self_messages' = n
       ELSE /\ heap' = [heap EXCEPT ![self_messages] = <<>>]
            /\ UNCHANGED self_messages
  /\ tool_call_count' = 0
  /\ convOp' = "reset"
  /\ UNCHANGED <<coreVars, httpVars, chatVars, returned>>

GetMessages ==
  LET h == Dropped(heap, returned)
      c == CopyList(h, self_messages) IN
  /\ heap' = c.heap /\ returned' = c.ref
  /\ convOp' = "get_messages"
  /\ UNCHANGED <<coreVars, httpVars, chatVars, self_messages, tool_call_count>>

\* what the caller does with the list it got
CallerAppends ==
  /\ returned # NoList /\ Len(heap[returned]) < MaxHistory
  /\ heap' = [heap EXCEPT ![returned] = Append(@, UserMessage)]
  /\ convOp' = "caller"
  /\ UNCHANGED <<coreVars, httpVars, chatVars, self_messages, returned,
                 tool_call_count>>

CallerRemoves ==
  /\ returned # NoList /\ heap[returned] # <<>>
  /\ \E i \in {1, Len(heap[returned])} :
       heap' = [heap EXCEPT ![returned] =
                  SubSeq(@, 1, i - 1) \o SubSeq(@, i + 1, Len(@))]
  /\ convOp' = "caller"
  /\ UNCHANGED <<coreVars, httpVars, chatVars, self_messages, returned,
                 tool_call_count>>

NextConv ==
  \/ AddUserMessage \/ AddAssistantMessage \/ AddToolResult \/ ConvReset
  \/ GetMessages \/ CallerAppends \/ CallerRemoves

SpecConv == InitConv /\ [][NextConv]_vars

\* C28: the first message of the history is always the original system
\* message; right after reset the history is exactly that message and
\* tool_call_count is 0; and an append to or a removal from the list
\* get_messages returned leaves the stored history as it was.
C28_HistoryKept ==
  /\ [](/\ messages # <<>> /\ messages[1] = SystemMessage
        /\ convOp = "reset" =>
             messages = <<SystemMessage>> /\ tool_call_count = 0)
  /\ [][CallerAppends \/ CallerRemoves =>
          heap'[self_messages'] = heap[self_messages]]_vars

C28_Witness ==
  /\ convOp = "caller" /\ returned # NoList
  /\ Len(messages) = MaxHistory /\ heap[returned] = <<>>

\* ---------------------------------------------------------------------
\* BabelfishMCPCLI.chat_loop and process_tool_calls (openrouter_cli.py).
\* One action per pass of the inner while loop: the pass requests a
\* completion, stores the assistant message and processes its tool calls.

max_iterations == 16
\* the limit the rate limit help prints
StatedIterations == 8
max_tool_calls == 10

\* bounds of the conversations tried
MaxUserMsgs == 1
MaxCalls == 2
MaxOddReplies == 1

\* the tool calls a model can send: a registered name, no name or an
\* unknown one; arguments that are a JSON object with a fen, text that
\* is no JSON, or null
CallNames == {"analyze_position", "", "bogus"}
CallArguments == {"fen", "garbage", "null"}
RECURSIVE CallSeqs(_)
CallSeqs(n) ==
  IF n = 0 THEN {<<>>}
  ELSE LET less == CallSeqs(n - 1) IN
       less \cup
       UNION {{Append(tcs, ToolCall(Len(tcs) + 1, nm, a)) :
                 nm \in CallNames, a \in CallArguments} :
              tcs \in {x \in less : Len(x) = n - 1}}
Replies == [tool_calls : CallSeqs(MaxCalls), finish_reason : {"tool_calls", "stop"}]
PlainCall == ToolCall(1, "analyze_position", "fen")
PlainReply == [tool_calls |-> <<PlainCall>>, finish_reason |-> "tool_calls"]
FinalReply == [tool_calls |-> <<>>, finish_reason |-> "stop"]

\* json.loads(arguments_str): the keys of the object, {} after a
\* JSONDecodeError; null makes json.loads raise a TypeError instead
ArgumentKeys(a) == IF a = "fen" THEN {"fen"} ELSE {}
ParseRaises(a) == a = "null"

\* _infer_tool_name, "" for None
InferToolName(keys) ==
  IF "fen" \in keys /\ "analyze_position" \in tools
    THEN "analyze_position" ELSE ""

\* one pass of the loop of process_tool_calls: the tool message it adds,
\* or none when the pass ends in a continue statement
Skips(name) == name = "" \/ name \notin tools
ProcessToolCall(tc) ==
  IF ParseRaises(tc.arguments)
    THEN <<ToolMessage(tc.id, "unknown", "error")>>
  ELSE LET name == IF tc.name = ""
                     THEN InferToolName(ArgumentKeys(tc.arguments))
                     ELSE tc.name IN
       IF Skips(name) THEN <<>>
       ELSE <<ToolMessage(tc.id, name, "result")>>

RECURSIVE ProcessToolCalls(_)
ProcessToolCalls(tcs) ==
  IF tcs = <<>> THEN <<>>
  ELSE ProcessToolCall(Head(tcs)) \o ProcessToolCalls(Tail(tcs))

Count(seq, Test(_)) == Len(SelectSeq(seq, Test))
IsUser(msg) == msg.role = "user"
\* the tool calls the router executed, as the history shows them
IsExecuted(msg) == msg.role = "tool" /\ msg.content = "result"
Executed == Count(messages, IsExecuted)

\* the replies other than the plain ones a conversation has had
IsOdd(i) ==
  /\ messages[i].role = "assistant" /\ messages[i].tool_calls # <<>>
  /\ \/ messages[i].tool_calls # <<PlainCall>>
     \/ i = Len(messages)
     \/ messages[i + 1].role # "tool"
OddReplies == Cardinality({i \in 1 .. Len(messages) : IsOdd(i)})

\* the replies the model of the conversation may give next
RepliesTried ==
  IF OddReplies < MaxOddReplies THEN Replies ELSE {PlainReply, FinalReply}

InitChat == CoreIdle /\ CliIdle

UserInput ==
  /\ chatPc = "prompt" /\ Count(messages, IsUser) < MaxUserMsgs
  /\ heap' = Appended(UserMessage)
  /\ convOp' = "add_user_message"
  /\ chatPc' = "loop" /\ iteration' = 0
  /\ UNCHANGED <<coreVars, httpVars, self_messages, returned, tool_call_count>>

HandleCommandReset ==
  /\ chatPc = "prompt" /\ messages # <<SystemMessage>>
  /\ ConvReset

ChatIteration ==
  /\ chatPc = "loop" /\ iteration < max_iterations
  /\ iteration' = iteration + 1
  /\ \/ \E r \in RepliesTried :
          /\ IF r.tool_calls # <<>> /\ r.finish_reason = "tool_calls"
               THEN /\ heap' = [heap EXCEPT ![self_messages] =
                                  Append(@, AssistantMessage("text", r.tool_calls))
                                    \o ProcessToolCalls(r.tool_calls)]
                    /\ convOp' = IF ProcessToolCalls(r.tool_calls) = <<>>
                                   THEN "add_assistant_message"
                                   ELSE "add_tool_result"
                    /\ chatPc' = "loop"
               ELSE /\ heap' = Appended(AssistantMessage("text", r.tool_calls))
                    /\ convOp' = "add_assistant_message"
                    /\ chatPc' = "prompt"
     \/ \* chat_completion raised: the handlers of the outer loop
        /\ chatPc' = "prompt"
        /\ UNCHANGED <<heap, convOp>>
  /\ UNCHANGED <<coreVars, httpVars, self_messages, returned, tool_call_count>>

ChatLoopExhausted ==
  /\ chatPc = "loop" /\ iteration >= max_iterations
  /\ chatPc' = "prompt"
  /\ UNCHANGED <<coreVars, httpVars, convVars, iteration>>

NextChat == UserInput \/ HandleCommandReset \/ ChatIteration \/ ChatLoopExhausted

SpecChat == InitChat /\ [][NextChat]_vars

\* C23: for one user message the loop requests at most 8 completions.
C23_AtMostStatedIterations == iteration <= StatedIterations

\* C27: when the next completion request is about to be sent or was
\* sent, every assistant message with tool calls is followed by one tool
\* message per call, with the call's id, in call order.
C27_EveryCallAnswered ==
  \A i \in 1 .. Len(messages) :
    LET tcs == messages[i].tool_calls IN
    (messages[i].role = "assistant" /\ tcs # <<>>
       /\ (i < Len(messages) \/ chatPc = "loop")) =>
      /\ i + Len(tcs) <= Len(messages)
      /\ \A j \in 1 .. Len(tcs) :
           /\ messages[i + j].role = "tool"
           /\ messages[i + j].tool_call_id = tcs[j].id

\* C29: tool_call_count is the number of tool calls executed since the
\* last reset, and that number never exceeds max_tool_calls.
C29_ToolCallCap ==
  /\ tool_call_count = Executed
  /\ Executed <= max_tool_calls

\* ---------------------------------------------------------------------
\* The apply_moves tool: MCPToolRouter._apply_moves (mcp_tool_router.py)
\* and apply_moves_to_fen (chess_coach_mcp.py).

MaxSeq == 3

\* the move texts tried: two legal moves, a well-formed move that is legal
\* nowhere, the null move, and a text that is no SAN at all
MoveTexts == {SanOffset + 1, SanOffset + 2, SanOffset + NMoves + 1, NullSan, 1}
RECURSIVE MoveSeqs(_)
MoveSeqs(n) ==
  IF n = 0 THEN {<<>>}
  ELSE LET less == MoveSeqs(n - 1) IN
       less \cup UNION {{Append(ms, t) : t \in MoveTexts} :
                        ms \in {x \in less : Len(x) = n - 1}}

MvError(tool, fen, moves, error) ==
  [NoMvOut EXCEPT !.tool = tool, !.starting_fen = fen, !.moves = moves,
                  !.status = "error", !.error = error]

\* the loop of _apply_moves from its pass i on
RECURSIVE RouterApplyFrom(_, _, _, _)
RouterApplyFrom(fen, moves, i, bd) ==
  IF i > Len(moves)
    THEN [NoMvOut EXCEPT !.tool = "router", !.starting_fen = fen,
                         !.moves = moves, !.status = "success",
                         !.applied = moves, !.fen = bd]
  ELSE LET move == ParseSan(bd, moves[i]) IN
       IF move = NoMove
         THEN [MvError("router", fen, moves, "Invalid move") EXCEPT
                 !.index = i, !.named = moves[i],
                 !.applied = SubSeq(moves, 1, i - 1), !.fen = bd]
       ELSE RouterApplyFrom(fen, moves, i + 1, Apply(bd, move))

RouterApplyMovesResult(fen, moves) ==
  IF moves = <<>> THEN MvError("router", fen, moves, "Moves list is required")
  ELSE IF ~BoardParses(fen)
    THEN MvError("router", fen, moves, "Invalid starting FEN")
  ELSE RouterApplyFrom(fen, moves, 1, fen)

\* the loop of apply_moves_to_fen from its pass i on; analysed tells
\* whether the quick analysis of the final position went through
RECURSIVE CoachApplyFrom(_, _, _, _, _)
CoachApplyFrom(fen, moves, i, current_board, analysed) ==
  IF i > Len(moves)
    THEN [NoMvOut EXCEPT !.tool = "coach", !.starting_fen = fen,
                         !.moves = moves, !.status = "success",
                         !.applied = moves, !.fen = current_board,
                         !.analysed = analysed]
  ELSE LET chess_move == ParseSan(current_board, moves[i]) IN
       IF chess_move = NoMove
         THEN [MvError("coach", fen, moves, "Invalid move notation") EXCEPT
                 !.index = i, !.named = moves[i],
                 !.applied = SubSeq(moves, 1, i - 1), !.fen = current_board]
       ELSE IF chess_move \notin LegalMoves(current_board)
         THEN [MvError("coach", fen, moves, "Illegal move") EXCEPT
                 !.index = i, !.named = moves[i],
                 !.applied = SubSeq(moves, 1, i - 1), !.fen = current_board]
       ELSE CoachApplyFrom(fen, moves, i + 1, Apply(current_board, chess_move),
                           analysed)

CoachApplyMovesResult(fen, moves, analysed) ==
  IF moves = <<>> THEN MvError("coach", fen, moves, "Please provide moves")
  ELSE IF ~BoardParses(fen)
    THEN MvError("coach", fen, moves, "Invalid starting FEN")
  ELSE CoachApplyFrom(fen, moves, 1, fen, analysed)

restVars == <<anVars, q, out, calls, idVars, concVars, pawnVars, cliVars>>

InitMoves == CoreIdle /\ CliIdle

RouterApplyMoves ==
  /\ mvOut = NoMvOut
  /\ \E fen \in Fens, moves \in MoveSeqs(MaxSeq) :
       mvOut' = RouterApplyMovesResult(fen, moves)
  /\ UNCHANGED <<restVars, tools, ctOut>>

CoachApplyMoves ==
  /\ mvOut = NoMvOut
  /\ \E fen \in Fens, moves \in MoveSeqs(MaxSeq), analysed \in BOOLEAN :
       mvOut' = CoachApplyMovesResult(fen, moves, analysed)
  /\ UNCHANGED <<restVars, tools, ctOut>>

NextMoves == RouterApplyMoves \/ CoachApplyMoves

SpecMoves == InitMoves /\ [][NextMoves]_vars

\* the rules of chess, stated apart from the parser: text t is a legal
\* move in position p
LegalText(p, t) == t \in SanMoves /\ (t - SanOffset) \in LegalMoves(p)
\* the number of leading moves of ms that are legal one after the other
RECURSIVE LegalPrefix(_, _)
LegalPrefix(p, ms) ==
  IF ms = <<>> \/ ~LegalText(p, Head(ms)) THEN 0
  ELSE 1 + LegalPrefix(Apply(p, Head(ms) - SanOffset), Tail(ms))
\* the position after the first n moves of ms, all legal
RECURSIVE Reached(_, _, _)
Reached(p, ms, n) ==
  IF n = 0 THEN p ELSE Reached(Apply(p, Head(ms) - SanOffset), Tail(ms), n - 1)

\* C24: the apply_moves tool of either server reports success, with the
\* position reached as final FEN, only if every move is legal where it
\* is played; otherwise it reports an error that names the first move
\* that is not, with its 1-based index, after applying exactly the moves
\* before it.
C24_OnlyLegalMovesApplied ==
  (mvOut.tool # "none" /\ mvOut.moves # <<>> /\ BoardParses(mvOut.starting_fen)) =>
    LET n == LegalPrefix(mvOut.starting_fen, mvOut.moves) IN
    IF n = Len(mvOut.moves)
      THEN /\ mvOut.status = "success"
           /\ mvOut.fen = Reached(mvOut.starting_fen, mvOut.moves, n)
    ELSE /\ mvOut.status = "error"
         /\ mvOut.index = n + 1 /\ mvOut.named = mvOut.moves[n + 1]
         /\ mvOut.applied = SubSeq(mvOut.moves, 1, n)
         /\ mvOut.fen = Reached(mvOut.starting_fen, mvOut.moves, n)

\* ---------------------------------------------------------------------
\* MCPToolRouter.call_tool and call_tool_mcp (mcp_tool_router.py).

\* the names asked for: the registered ones and one that is not
ToolNamesTried == RegisteredTools \cup {"bogus"}

\* how the tool function ends: a list with a text, a list with the text
\* of an error the tool caught itself, an empty list, None, or an
\* exception it lets through
ToolBehaviours == {"text", "error_text", "empty", "none", "raise"}

\* except Exception
CaughtNever(behaviour) == FALSE
Caught(behaviour) == behaviour = "raise"

\* text_results and len(text_results) > 0
HasResult(behaviour) == behaviour \in {"text", "error_text"}

CallToolResult(name, behaviour) ==
  LET res == [NoCtOut EXCEPT !.api = "call_tool", !.tool_name = name] IN
  IF name \notin tools
    THEN [res EXCEPT !.status = "error", !.message = "Unknown tool"]
  ELSE LET ran == [res EXCEPT !.invoked = TRUE, !.behaviour = behaviour] IN
       IF behaviour = "raise"
         THEN IF Caught(behaviour)
                THEN [ran EXCEPT !.status = "error",
                                 !.message = "Tool execution failed"]
                ELSE [ran EXCEPT !.raised = TRUE]
       ELSE IF HasResult(behaviour)
         THEN [ran EXCEPT !.status = "success", !.message = behaviour]
       ELSE [ran EXCEPT !.status = "error", !.message = "No result from tool"]

\* call_tool_mcp answers a list of texts and no status; status is "list"
CallToolMcpResult(name, behaviour) ==
  LET res == [NoCtOut EXCEPT !.api = "call_tool_mcp", !.tool_name = name,
                             !.status = "list"] IN
  IF name \notin tools THEN [res EXCEPT !.message = "Unknown tool"]
  ELSE LET ran == [res EXCEPT !.invoked = TRUE, !.behaviour = behaviour] IN
       IF behaviour = "raise"
         THEN IF Caught(behaviour)
                THEN [ran EXCEPT !.message = "Tool execution failed"]
                ELSE [ran EXCEPT !.raised = TRUE, !.status = "none"]
       ELSE [ran EXCEPT !.message = behaviour]

InitCallTool == CoreIdle /\ CliIdle

CallTool ==
  /\ \E name \in ToolNamesTried, behaviour \in ToolBehaviours :
       ctOut' = CallToolResult(name, behaviour)
  /\ UNCHANGED <<restVars, mvOut, tools>>

CallToolMcp ==
  /\ \E name \in ToolNamesTried, behaviour \in ToolBehaviours :
       ctOut' = CallToolMcpResult(name, behaviour)
  /\ UNCHANGED <<restVars, mvOut, tools>>

NextCallTool == CallTool \/ CallToolMcp

SpecCallTool == InitCallTool /\ [][NextCallTool]_vars

C26_InvalidOnlyForIllegal ==
  (out.tool = "evaluate_move_quality" /\ out.kind = "invalid") =>
    ~(BoardParses(q.fen) /\ LegalText(q.fen, q.move))

\* ---------------------------------------------------------------------
\* C30: every dictionary get_principal_variation returns, also after a
\* failure in the middle of the walk or an early stop, is consistent:
\* total_moves is the length of pv_moves and of pv_analysis, the i-th
\* entry of pv_moves is move_san of the i-th step, whose move_number is
\* i (counting from 1), starting_fen is the FEN the caller gave and
\* analysis_depth the depth the caller gave.
C30_ResultConsistent ==
  (pc = "done" /\ op = "pv" /\ status = "ok") =>
    /\ pvResult.total_moves = Len(pvResult.pv_moves)
    /\ pvResult.total_moves = Len(pvResult.pv_analysis)
    /\ \A i \in 1 .. Len(pvResult.pv_analysis) :
         /\ pvResult.pv_moves[i] = pvResult.pv_analysis[i].move_san
         /\ pvResult.pv_analysis[i].move_number = i
    /\ pvResult.starting_fen = argFen
    /\ pvResult.analysis_depth = argDepth

\* a walk that failed after recording two steps
C30_Witness ==
  /\ pc = "done" /\ op = "pv" /\ status = "ok"
  /\ failAt \notin {"none", "parse_san"}
  /\ pvResult.total_moves = 2 /\ argMax = MaxMoves

====
